---- MODULE Spec2Model ----
(***************************************************************************)
(* A model of the linux-kvm crate (src/linux-kvm/src/lib.rs) on top of the *)
(* File wrapper of linux-io (src/linux-io/src/fd.rs).                      *)
(*                                                                         *)
(* The host program is the caller of the library: it owns at most one Kvm, *)
(* and a bounded number of VirtualMachine, VirtualCpu / VirtualCpuRunner   *)
(* and MemoryRegion values.  The kernel is the environment: every system   *)
(* call may fail with an error number, and it keeps the descriptor table,  *)
(* the address space, each VM's slot table and vCPU ids, and each vCPU's   *)
(* registers and control page.                                             *)
(*                                                                         *)
(* Rust's ownership rules are part of the program: an action that the      *)
(* borrow checker rejects is not enabled.  A value whose borrow has been   *)
(* ended by a later conflicting use is "retired": it can no longer be used *)
(* and only waits for its implicit drop.                                   *)
(***************************************************************************)
EXTENDS Integers, Sequences, FiniteSets, TLC

\* ------------------------------------------------------------------ bounds
MaxVms == 1
MaxCpus == 2
MaxRegions == 3

VmIds == 1..MaxVms
CpuIds == 1..MaxCpus
RegIds == 1..MaxRegions
\* addresses the kernel places mappings at: one per value that holds a mapping
Addrs == 1..(MaxRegions + MaxCpus)
\* descriptor numbers the kernel hands out: one per object that holds a File
Fds == 3..(3 + MaxVms + MaxCpus)

\* Files and threads that are followed
MaxFiles == 2
MaxThreads == 3
\* calls of lock or try_lock per thread
MaxRounds == 2
\* iterations of Futex::spin before it gives up (100 in the source)
SpinLimit == 1
FileIds == 1..MaxFiles
ThreadIds == 1..MaxThreads

\* ------------------------------------------------------- program constants
\* Futex::UNLOCKED, LOCKED, CONTENDED
UNLOCKED == 0
LOCKED == 1
CONTENDED == 2
ENOMEM == 12
\* size_of::<kvm_run>(): the 32-byte header plus the 256-byte ExitDetails union
KvmRunHeaderSize == 32
ExitDetailsSize == 256
KvmRunSize == KvmRunHeaderSize + ExitDetailsSize
\* PROT_READ | PROT_WRITE
PROT_READ_WRITE == 3
MAP_SHARED == 1
\* MAP_SHARED | MAP_ANONYMOUS
MAP_SHARED_ANONYMOUS == 33
KVM_MEM_READONLY == 2

AT_FDCWD == -100
O_RDONLY == 0
O_ACCMODE == 3
O_RDWR == 2
O_CLOEXEC == 524288

\* ---------------------------------------------------------------- bit words
\* ulong on x86_64: a word of 64 bits, kept as the set of its one-bits
WordBits == 64
ToWord(n) == {i \in 0..30 : (n \div (2 ^ i)) % 2 = 1}
\* w << k on a ulong: bits shifted past the top are lost
Shl(w, k) == {i + k : i \in w} \cap (0..(WordBits - 1))
\* a | b
BitOr(a, b) == a \cup b

\* ------------------------------------------------ inputs and kernel answers
\* error numbers the kernel answers with
Errnos == {ENOMEM, 22}
\* the error number the kernel answers a second CREATE_VCPU of one id with
DuplicateErrnos == {17}
\* sizes the kernel may report for GET_VCPU_MMAP_SIZE
MmapSizes == {16, KvmRunHeaderSize, KvmRunSize - 1, KvmRunSize, 4096}
\* lengths the caller asks MemoryRegion::new for
Lengths == {0, 4096}
\* <<slot, flags, guest_phys_addr>> the caller asks set_guest_memory_region for
SlotArgs == {<<0, 0, 0>>, <<0, KVM_MEM_READONLY, 4096>>, <<1, 0, 4096>>}
\* cpu ids the caller asks create_vcpu for
CpuNums == {0, 1}
Versions == {11, 12}
Extensions == {0, 1}
\* exit reasons the kernel reports: KVM_EXIT_UNKNOWN, KVM_EXIT_IO
ExitReasons == {0, 2}
\* the fields of the ExitDetails union
Variants == {"hw", "fail_entry", "ex", "io", "mmio", "padding"}
\* register sets: the two registers the model follows (rax, rip); the sets
\* the kernel and the callers of set_regs choose from differ in rip
Regs(rax, rip) == [rax |-> rax, rip |-> rip]
RegVals == {Regs(0, 0), Regs(0, 1)}
\* every value of the two registers
RegSets == {Regs(a, i) : a \in 0..1, i \in 0..1}

\* ------------------------------------------------------------ result types
Ok(v) == <<"Ok", v>>
Err(e) == <<"Err", e>>
IsOk(r) == r[1] = "Ok"
IsErr(r) == r[1] = "Err"

\* linux_unsafe::raw::unpack_standard_result: a raw return value in
\* -4095..-1 is an error number, anything else is the result
unpack_standard_result(raw) ==
  IF raw >= -4095 /\ raw <= -1 THEN Err(-raw) ELSE Ok(raw)

\* raw return values of a system call whose success value is in S
RawResults(S) == S \cup {-e : e \in Errnos}

\* one system call as it reaches the kernel
Sys(call, target, req, arg) == <<call, target, req, arg>>

\* the error the kernel produced in a call, 0 when it produced none
KernelErr(raw) == IF raw >= -4095 /\ raw <= -1 THEN -raw ELSE 0

\* --------------------------------------------------------------- the state
VARIABLES
  kvm,      \* the Kvm value: [st, fd]
  vms,      \* VirtualMachine values and the kernel's VM behind each
  cpus,     \* VirtualCpu / VirtualCpuRunner values and the kernel's vCPU
  regions,  \* MemoryRegion values
  fdtab,    \* kernel: what each descriptor number is open on
  maps,     \* kernel: the mappings of the address space
  sys,      \* the last library call: its system calls and what it returned
  proc,     \* "running", or "aborted" once a panic has aborted the process
  files,       \* plain File values of linux-io: [st, fd, err]
  futex_word,  \* Mutex::futex.futex_word
  data,        \* Mutex::data, a counter
  threads,     \* the threads that use the Mutex: where each one is
  dents,       \* a DirEntries iterator: [st, remain]
  alldents,    \* an AllDirEntries iterator, its buffer, and the kernel's directory
  wr           \* a call of write_str on a File, and what the kernel has taken

vars == <<kvm, vms, cpus, regions, fdtab, maps, sys, proc, files, futex_word, data,
          threads, dents, alldents, wr>>
\* the iterators of linux-io
iterVars == <<dents, alldents, wr>>
\* what the calls of linux-kvm leave alone, and what those of linux-io do
linuxIoVars == <<files, futex_word, data, threads, iterVars>>
kvmVars == <<kvm, vms, cpus, regions, maps, proc>>

\* slots, ids: the kernel's slot table and vCPU ids of the VM; borrowed: the
\* regions the value holds a borrow of; registered: those a call registered;
\* made: the cpu ids create_vcpu succeeded for; removed: the slot ids whose
\* entry a call of length zero removed
NoVm == [st |-> "none", fd |-> 0, slots |-> {}, ids |-> {},
         borrowed |-> {}, registered |-> {}, made |-> {}, removed |-> {}]
\* run, run_len: the fields of VirtualCpuRunner; mapped: what mmap gave to_runner;
\* page, regs: the kernel's control page (with the two header fields the host
\* writes) and registers of the vCPU; last: how
\* the last run returned ("none", "ok", "err"); unmaps: munmap calls made for
\* the value; unmapFailed, panicked: how the munmap of its drop went
NoCpu == [st |-> "none", fd |-> 0, vm |-> 0, run |-> 0, run_len |-> 0,
          mapped |-> <<>>,
          page |-> [request_interrupt_window |-> 0, immediate_exit |-> 0,
                    exit_reason |-> 0, tag |-> "hw"],
          last |-> "none", regs |-> Regs(0, 0), unmaps |-> 0, unmapFailed |-> FALSE,
          panicked |-> FALSE]
NoRegion == [st |-> "none", addr |-> 0, length |-> 0, unmaps |-> 0,
             unmapFailed |-> FALSE, panicked |-> FALSE]

\* a File: st is "none", "open", "failing" (inside File::close, after a close
\* that failed), "closed" or "dropped"; err: the error File::close is about to
\* return
NoFile == [st |-> "none", fd |-> 0, err |-> 0]

\* a slice of bytes as the directory-entry code reads it: the remainder of
\* its address by 8, its length, and what stands at the start of each record
\* met from its start on
EmptySlice == [addr |-> 0, len |-> 0, hdrs |-> <<>>]
\* st: "none", "iter" (a DirEntries exists), "panicked" (its next panicked)
NoDirEntries == [st |-> "none", remain |-> EmptySlice]
\* write_str: st is "none", "writing" (in the loop), "ok" or "err" (returned);
\* s: the string; bytes: the local of that name; written: the bytes the
\* kernel has accepted; calls: the write calls made, modulo CallsMod
NoWriteStr == [st |-> "none", s |-> <<>>, bytes |-> <<>>, written |-> <<>>, calls |-> 0]
\* AllDirEntries { f, buf, rng, transform }: f is "Some" or "None"; buf_len is
\* buf.len() and hdrs the records of buf[rng.start..rng.end]; dir, pos: the
\* kernel's directory and read position of the open file; out: the items
\* the iterator has yielded so far
NoAllDirEntries ==
  [st |-> "none", f |-> "None", buf_len |-> 0, rng |-> [start |-> 0, end |-> 0],
   hdrs |-> <<>>, dir |-> <<>>, pos |-> 1, out |-> <<>>]
\* a thread: pc is where it is in Mutex::lock / try_lock / the guard's life;
\* state, spin: the locals of lock_contended and spin; tmp: the counter value
\* it read under the guard; used: calls of lock and try_lock it has made;
\* done: the additions it has completed
NoThread == [pc |-> "idle", state |-> 0, spin |-> 0, tmp |-> 0, used |-> 0, done |-> 0]

Call(op, obj, arg, reqs, kerr, ret, aux) ==
  [op |-> op, obj |-> obj, arg |-> arg, reqs |-> reqs, kerr |-> kerr,
   ret |-> ret, aux |-> aux]

Init ==
  /\ kvm = [st |-> "none", fd |-> 0]
  /\ vms = [v \in VmIds |-> NoVm]
  /\ cpus = [c \in CpuIds |-> NoCpu]
  /\ regions = [r \in RegIds |-> NoRegion]
  /\ fdtab = [f \in Fds |-> "free"]
  /\ maps = {}
  /\ sys = Call("start", 0, <<>>, <<>>, {}, Ok(0), <<>>)
  /\ proc = "running"
  /\ files = [i \in FileIds |-> NoFile]
  /\ futex_word = UNLOCKED
  /\ data = 0
  /\ threads = [t \in ThreadIds |-> NoThread]
  /\ dents = NoDirEntries
  /\ alldents = NoAllDirEntries
  /\ wr = NoWriteStr

\* ------------------------------------------------------- kernel: resources
FreeFds == {f \in Fds : fdtab[f] = "free"}
\* the kernel hands out the lowest free descriptor number
LowestFreeFd == {f \in FreeFds : \A g \in FreeFds : f <= g}
\* the kernel places a new mapping at a free address; addresses are only ever
\* compared, so the lowest free one stands for any of them
FreeAddrs == {a \in Addrs : /\ \A m \in maps : m.addr # a
                            /\ \A b \in Addrs : b < a => \E m \in maps : m.addr = b}
Mapping(addr, len, obj) == [addr |-> addr, len |-> len, obj |-> obj]
Unmapped(addr, len) == {m \in maps : ~(m.addr = addr /\ m.len = len)}

\* the lowest index of a table that holds no value yet
Fresh(tab) == {i \in DOMAIN tab : tab[i].st = "none" /\
                 \A j \in DOMAIN tab : tab[j].st = "none" => i <= j}

\* --------------------------------------------------- linux-io: File<Device>
\* File::ioctl_raw, open_raw, mmap_raw and linux_unsafe::munmap: the kernel's
\* answer becomes a Result,
\* the error number unchanged (map_err(|e| e.into()))
raw_result(raw) == unpack_standard_result(raw)

\* an ioctl wrapper that answers every failure with an error number of its own
\* (EINVAL), as File::getsockopt does for an unexpected length
File_ioctlOwnError(raw) ==
  IF IsErr(raw_result(raw)) THEN Err(22) ELSE raw_result(raw)

\* File::ioctl: one ioctl_raw with the request's code and argument; the raw
\* result goes through the request's prepare_ioctl_result
File_ioctl(raw) == raw_result(raw)

\* Drop for File: close, the result discarded.  The descriptor number is free
\* again afterwards.
CloseFd(tab, fd) == [tab EXCEPT ![fd] = "free"]
SysClose(fd) == Sys("close", fd, "", <<>>)

\* ------------------------------------------------ ownership and borrowing
\* a VirtualCpuRunner of VM v that has not been dropped yet: its Drop impl
\* keeps the borrow of the VM (and of the Kvm) alive until then
HasRunner(v) ==
  \E c \in CpuIds : cpus[c].vm = v /\ cpus[c].st \in {"ready", "running", "exited"}

\* the values whose borrow ends when the VMs in V are borrowed mutably, moved
\* or outlived: the VMs themselves and the VirtualCpu values made from them
RetireVms(V) ==
  [v \in VmIds |-> IF v \in V /\ vms[v].st = "live"
                   THEN [vms[v] EXCEPT !.st = "retired"] ELSE vms[v]]
RetireCpus(V) ==
  [c \in CpuIds |-> IF cpus[c].vm \in V /\ cpus[c].st = "cpu"
                    THEN [cpus[c] EXCEPT !.st = "retired"] ELSE cpus[c]]

\* a signature without the bound 'r: 'a: the borrow of the region ends with
\* the call
OutlivesNothing(r) == {}

\* set_guest_memory_region<'r: 'a>(.., host_region: &'r mut MemoryRegion): the
\* region stays mutably borrowed for as long as the VM is in use.  The VMs
\* that hold such a borrow of region r.
Outlives(r) == {v \in VmIds : r \in vms[v].borrowed}

\* ------------------------------------------------------------------- Kvm
\* OpenOptions::read_only, ::read_write and .close_on_exec(): the flags word
OpenOptions_read_only == ToWord(O_RDONLY)
OpenOptions_read_write == ToWord(O_RDWR)
close_on_exec(flags) == BitOr(flags, ToWord(O_CLOEXEC))

\* options that open the device for reading only
kvm_open_read_only == close_on_exec(OpenOptions_read_only)

\* the options of Kvm::open: OpenOptions::read_write().close_on_exec()
kvm_open_opts == close_on_exec(OpenOptions_read_write)

\* File::open(path, options): open_raw(path, options.flags, 0), one openat
\* relative to AT_FDCWD
File_open(path, options) ==
  Sys("openat", path, "", [dirfd |-> AT_FDCWD, flags |-> options, mode |-> 0])

\* Kvm::open: File::open of "/dev/kvm"; an error is returned by `?`, and a
\* descriptor is adopted as the File of a new Kvm
KvmOpen ==
  /\ UNCHANGED linuxIoVars
  /\ proc = "running"
  /\ kvm.st = "none"
  /\ \E raw \in RawResults(LowestFreeFd) :
       LET res == raw_result(raw)
           req == File_open("/dev/kvm", kvm_open_opts)
       IN /\ sys' = Call("open", 0, <<>>, <<req>>, {KernelErr(raw)} \ {0}, res, <<>>)
          /\ IF IsOk(res)
             THEN /\ kvm' = [st |-> "open", fd |-> res[2]]
                  /\ fdtab' = [fdtab EXCEPT ![res[2]] = "kvm"]
             ELSE UNCHANGED <<kvm, fdtab>>
  /\ UNCHANGED <<vms, cpus, regions, maps, proc>>

\* a get_api_version that accepts the stable version only and answers any
\* other with an error of its own (EINVAL)
get_api_version_stable_only(raw) ==
  IF IsOk(File_ioctl(raw)) /\ File_ioctl(raw)[2] # 12 THEN Err(22) ELSE File_ioctl(raw)

\* what get_api_version returns: the result of self.f.ioctl, as it is
get_api_version_result(raw) == File_ioctl(raw)

\* Kvm::get_api_version
GetApiVersion ==
  /\ UNCHANGED linuxIoVars
  /\ proc = "running"
  /\ kvm.st = "open"
  /\ \E raw \in RawResults(Versions) :
       sys' = Call("get_api_version", 0, <<>>,
                   <<Sys("ioctl", kvm.fd, "KVM_GET_API_VERSION", <<>>)>>,
                   {KernelErr(raw)} \ {0}, get_api_version_result(raw), raw)
  /\ UNCHANGED <<kvm, vms, cpus, regions, fdtab, maps, proc>>

\* Kvm::check_extension
CheckExtension(ext) ==
  /\ UNCHANGED linuxIoVars
  /\ proc = "running"
  /\ kvm.st = "open"
  /\ \E raw \in RawResults({1}) :
       sys' = Call("check_extension", 0, ext,
                   <<Sys("ioctl", kvm.fd, "KVM_CHECK_EXTENSION", ext)>>,
                   {KernelErr(raw)} \ {0}, File_ioctl(raw), <<>>)
  /\ UNCHANGED <<kvm, vms, cpus, regions, fdtab, maps, proc>>

\* Kvm::get_vcpu_mmap_size
GetVcpuMmapSize ==
  /\ UNCHANGED linuxIoVars
  /\ proc = "running"
  /\ kvm.st = "open"
  /\ \E raw \in RawResults(MmapSizes) :
       sys' = Call("get_vcpu_mmap_size", 0, <<>>,
                   <<Sys("ioctl", kvm.fd, "KVM_GET_VCPU_MMAP_SIZE", <<>>)>>,
                   {KernelErr(raw)} \ {0}, File_ioctl(raw), <<>>)
  /\ UNCHANGED <<kvm, vms, cpus, regions, fdtab, maps, proc>>

\* Kvm::create_vm: on success the new descriptor is wrapped as a
\* VirtualMachine that borrows the Kvm
CreateVm ==
  /\ UNCHANGED linuxIoVars
  /\ proc = "running"
  /\ kvm.st = "open"
  /\ \E raw \in RawResults(IF Fresh(vms) = {} THEN {} ELSE LowestFreeFd) :
       LET res == File_ioctl(raw)
       IN /\ sys' = Call("create_vm", 0, <<>>,
                         <<Sys("ioctl", kvm.fd, "KVM_CREATE_VM", <<>>)>>,
                         {KernelErr(raw)} \ {0}, res, <<>>)
          /\ IF IsOk(res)
             THEN \E v \in Fresh(vms) :
                    /\ vms' = [vms EXCEPT ![v] = [NoVm EXCEPT !.st = "live", !.fd = res[2]]]
                    /\ fdtab' = [fdtab EXCEPT ![res[2]] = "vm"]
             ELSE UNCHANGED <<vms, fdtab>>
  /\ UNCHANGED <<kvm, cpus, regions, maps, proc>>

\* values that hold no reference to the Kvm they were made from
KvmBorrowersNone == {}

\* VirtualMachine<'a> { kvm: &'a Kvm }, and VirtualCpu<'a> likewise: every VM,
\* with the vCPUs and runners made from it, borrows the Kvm
KvmBorrowers == VmIds

\* drop of the Kvm: closes the descriptor.  The borrow checker allows it only
\* when no VirtualMachine or VirtualCpu made from it is used afterwards and
\* every runner has been dropped.
DropKvm ==
  /\ UNCHANGED linuxIoVars
  /\ proc = "running"
  /\ kvm.st = "open"
  /\ \A v \in KvmBorrowers : ~HasRunner(v)
  /\ kvm' = [kvm EXCEPT !.st = "dropped"]
  /\ vms' = RetireVms(KvmBorrowers)
  /\ cpus' = RetireCpus(KvmBorrowers)
  /\ fdtab' = CloseFd(fdtab, kvm.fd)
  /\ sys' = Call("drop_kvm", 0, <<>>, <<SysClose(kvm.fd)>>, {}, Ok(0), <<>>)
  /\ UNCHANGED <<regions, maps, proc>>

\* ---------------------------------------------------------- VirtualMachine
\* kernel, KVM_CREATE_VCPU: an id that already has a vCPU in this VM is
\* rejected; otherwise the answer is a new descriptor or another error
KernelCreateVcpu(ids, id) ==
  IF id \in ids THEN {-e : e \in DuplicateErrnos}
  ELSE RawResults(IF Fresh(cpus) = {} THEN {} ELSE LowestFreeFd)

\* kernel, KVM_SET_USER_MEMORY_REGION: the descriptor takes the place of the
\* slot's entry; a descriptor of size zero only removes the entry
KernelSetSlot(slots, desc) ==
  {d \in slots : d.slot # desc.slot} \cup
  (IF desc.memory_size # 0 THEN {desc} ELSE {})

\* a create_vcpu that always asks for vCPU 0
create_vcpu_zero(cpu_id) == 0

\* the argument create_vcpu passes with KVM_CREATE_VCPU
create_vcpu_arg(cpu_id) == cpu_id

\* VirtualMachine::check_extension
VmCheckExtension(v, ext) ==
  /\ UNCHANGED linuxIoVars
  /\ proc = "running"
  /\ vms[v].st = "live"
  /\ \E raw \in RawResults({1}) :
       sys' = Call("vm_check_extension", v, ext,
                   <<Sys("ioctl", vms[v].fd, "KVM_VM_CHECK_EXTENSION", ext)>>,
                   {KernelErr(raw)} \ {0}, File_ioctl(raw), <<>>)
  /\ UNCHANGED <<kvm, vms, cpus, regions, fdtab, maps, proc>>

\* VirtualMachine::create_vcpu: no local check of cpu_id; the new descriptor
\* is wrapped as a VirtualCpu that borrows the VM
CreateVcpu(v, cpu_id) ==
  /\ UNCHANGED linuxIoVars
  /\ proc = "running"
  /\ vms[v].st = "live"
  /\ LET arg == create_vcpu_arg(cpu_id)
     IN \E raw \in KernelCreateVcpu(vms[v].ids, arg) :
       LET res == File_ioctl(raw)
       IN /\ sys' = Call("create_vcpu", v, cpu_id,
                         <<Sys("ioctl", vms[v].fd, "KVM_CREATE_VCPU", arg)>>,
                         {KernelErr(raw)} \ {0}, res, <<>>)
          /\ IF IsOk(res)
             THEN \E c \in Fresh(cpus) :
                    /\ cpus' = [cpus EXCEPT ![c] =
                         [NoCpu EXCEPT !.st = "cpu", !.fd = res[2], !.vm = v]]
                    /\ vms' = [vms EXCEPT ![v].ids = @ \cup {arg},
                                           ![v].made = @ \cup {cpu_id}]
                    /\ fdtab' = [fdtab EXCEPT ![res[2]] = "vcpu"]
             ELSE UNCHANGED <<vms, cpus, fdtab>>
  /\ UNCHANGED <<kvm, regions, maps, proc>>

\* a descriptor that keeps only the flag bits the library knows
MemoryRegionDescKnownFlags(slot, flags, guest_phys_addr, host_region) ==
  [slot |-> slot, flags |-> flags % 4, guest_phys_addr |-> guest_phys_addr,
   memory_size |-> host_region.length, userspace_addr |-> host_region.addr]

\* a descriptor with the address and the length of the region exchanged
MemoryRegionDescSwapped(slot, flags, guest_phys_addr, host_region) ==
  [slot |-> slot, flags |-> flags, guest_phys_addr |-> guest_phys_addr,
   memory_size |-> host_region.addr, userspace_addr |-> host_region.length]

\* the descriptor set_guest_memory_region builds
MemoryRegionDesc(slot, flags, guest_phys_addr, host_region) ==
  [slot |-> slot, flags |-> flags, guest_phys_addr |-> guest_phys_addr,
   memory_size |-> host_region.length, userspace_addr |-> host_region.addr]

\* VirtualMachine::set_guest_memory_region(&mut self, .., &'r mut MemoryRegion).
\* &mut self: no VirtualCpu of this VM is used afterwards and no runner of it
\* exists.  &'r mut: the region is not borrowed by this VM already, and a VM
\* that had borrowed it before is not used afterwards.
SetGuestMemoryRegion(v, slot, flags, guest_phys_addr, r) ==
  /\ UNCHANGED linuxIoVars
  /\ proc = "running"
  /\ vms[v].st = "live"
  /\ regions[r].st = "live"
  /\ v \notin Outlives(r)
  /\ \A w \in Outlives(r) \cup {v} : ~HasRunner(w)
  /\ \E raw \in RawResults({0}) :
       LET res == File_ioctl(raw)
           desc == MemoryRegionDesc(slot, flags, guest_phys_addr, regions[r])
           retired == RetireVms(Outlives(r))
       IN /\ sys' = Call("set_guest_memory_region", v, <<slot, flags, guest_phys_addr, r>>,
                         <<Sys("ioctl", vms[v].fd, "KVM_SET_USER_MEMORY_REGION", desc)>>,
                         {KernelErr(raw)} \ {0}, res, <<>>)
          /\ vms' = [retired EXCEPT
                       ![v].borrowed = @ \cup {r},
                       ![v].registered = IF IsOk(res) THEN @ \cup {r} ELSE @,
                       ![v].slots = IF IsOk(res) THEN KernelSetSlot(@, desc) ELSE @,
                       ![v].removed =
                          IF IsOk(res) /\ KernelSetSlot(vms[v].slots, desc) \subseteq vms[v].slots
                                       /\ KernelSetSlot(vms[v].slots, desc) # vms[v].slots
                          THEN @ \cup {slot} ELSE @]
  /\ cpus' = RetireCpus(Outlives(r) \cup {v})
  /\ UNCHANGED <<kvm, regions, fdtab, maps, proc>>

\* drop of a VirtualMachine: closes the descriptor; the kernel's VM and its
\* slots stay.  No VirtualCpu of it is used afterwards, no runner of it exists.
DropVm(v) ==
  /\ UNCHANGED linuxIoVars
  /\ proc = "running"
  /\ vms[v].st \in {"live", "retired"}
  /\ ~HasRunner(v)
  /\ vms' = [vms EXCEPT ![v] = [NoVm EXCEPT !.st = "dropped"]]
  /\ cpus' = RetireCpus({v})
  /\ fdtab' = CloseFd(fdtab, vms[v].fd)
  /\ sys' = Call("drop_vm", v, <<>>, <<SysClose(vms[v].fd)>>, {}, Ok(0), <<>>)
  /\ UNCHANGED <<kvm, regions, maps, proc>>

\* ------------------------------------------------------------ MemoryRegion
\* a drop that discards the result of munmap, as Drop for File does with close
DropIgnore(res, how) == [panicked |-> FALSE, proc |-> "running"]

\* Result::unwrap on the result of munmap in a Drop impl: an error panics.
\* The panic either aborts the process or unwinds, as the build decides.
DropUnwrap(res, how) ==
  IF IsErr(res)
  THEN [panicked |-> TRUE, proc |-> IF how = "abort" THEN "aborted" ELSE "running"]
  ELSE [panicked |-> FALSE, proc |-> "running"]

PanicStrategies == {"abort", "unwind"}

\* MemoryRegion::new
MemoryRegionNew(length) ==
  /\ UNCHANGED linuxIoVars
  /\ proc = "running"
  /\ \E raw \in RawResults(IF Fresh(regions) = {} THEN {} ELSE FreeAddrs) :
       LET res == raw_result(raw)
           req == Sys("mmap", -1, "",
                      [addr |-> 0, length |-> length, prot |-> PROT_READ_WRITE,
                       flags |-> MAP_SHARED_ANONYMOUS, offset |-> 0])
       IN /\ sys' = Call("memory_region_new", 0, length, <<req>>,
                         {KernelErr(raw)} \ {0}, res, <<>>)
          /\ IF IsOk(res)
             THEN \E r \in Fresh(regions) :
                    /\ regions' = [regions EXCEPT ![r] =
                         [NoRegion EXCEPT !.st = "live", !.addr = res[2], !.length = length]]
                    /\ maps' = maps \cup {Mapping(res[2], length, <<"anon", r>>)}
             ELSE UNCHANGED <<regions, maps>>
  /\ UNCHANGED <<kvm, vms, cpus, fdtab, proc>>

\* a drop that first asks each VM to delete a slot that points at the region
MemoryRegionDropDeregisters(r) ==
  LET uses == {u \in VmIds \X UNION {vms[w].slots : w \in VmIds} :
                 /\ vms[u[1]].st \in {"live", "retired"}
                 /\ u[2] \in vms[u[1]].slots
                 /\ u[2].userspace_addr = regions[r].addr}
      delete(u) == Sys("ioctl", vms[u[1]].fd, "KVM_SET_USER_MEMORY_REGION",
                       [u[2] EXCEPT !.memory_size = 0])
  IN (IF uses = {} THEN <<>> ELSE <<delete(CHOOSE u \in uses : TRUE)>>)
     \o <<Sys("munmap", -1, "", <<regions[r].addr, regions[r].length>>)>>

\* the system calls of Drop for MemoryRegion
MemoryRegionDropCalls(r) ==
  <<Sys("munmap", -1, "", <<regions[r].addr, regions[r].length>>)>>

\* kernel: a VM's slot table after the system calls of a sequence, of which
\* the KVM_SET_USER_MEMORY_REGION requests on the VM's descriptor change it
RECURSIVE SlotsAfter(_, _, _)
SlotsAfter(slots, fd, reqs) ==
  IF reqs = <<>> THEN slots
  ELSE LET q == Head(reqs)
       IN SlotsAfter(IF q[1] = "ioctl" /\ q[2] = fd /\ q[3] = "KVM_SET_USER_MEMORY_REGION"
                     THEN KernelSetSlot(slots, q[4]) ELSE slots,
                     fd, Tail(reqs))

\* Drop for MemoryRegion: munmap(addr, length).unwrap().  The borrow checker
\* allows it only when every VM that borrowed the region is no longer used.
DropRegion(r) ==
  /\ UNCHANGED linuxIoVars
  /\ proc = "running"
  /\ regions[r].st = "live"
  /\ \A v \in Outlives(r) : ~HasRunner(v)
  /\ \E raw \in RawResults({0}), how \in PanicStrategies :
       LET res == raw_result(raw)
           call == <<regions[r].addr, regions[r].length>>
           out == DropUnwrap(res, how)
       IN /\ sys' = Call("drop_region", r, <<>>, MemoryRegionDropCalls(r),
                         {KernelErr(raw)} \ {0}, res, <<>>)
          /\ regions' = [regions EXCEPT ![r] =
                         [NoRegion EXCEPT !.st = "dropped", !.unmaps = regions[r].unmaps + 1,
                                          !.unmapFailed = IsErr(res),
                                          !.panicked = out.panicked]]
          /\ maps' = IF IsOk(res) THEN Unmapped(call[1], call[2]) ELSE maps
          /\ proc' = out.proc
  /\ vms' = [v \in VmIds |->
               [RetireVms(Outlives(r))[v] EXCEPT
                  !.slots = IF vms[v].st \in {"live", "retired"}
                            THEN SlotsAfter(@, vms[v].fd, MemoryRegionDropCalls(r))
                            ELSE @]]
  /\ cpus' = RetireCpus(Outlives(r))
  /\ UNCHANGED <<kvm, fdtab>>

\* -------------------------------------------------------------- VirtualCpu
\* VirtualCpu::get_regs, VirtualCpuRunner::get_regs
\* a runner whose calls could begin while its KVM_RUN is still in the kernel
RunnerCallableWhileRunning == {"ready", "running", "exited"}

\* the states of a runner in which a call on it can begin: run_raw and
\* with_raw_run_state take &mut self, the register calls take &self, and the
\* runner is neither Send nor Sync (field run: *mut kvm_run), so the one thread
\* that has it is inside no other call of it
RunnerCallable == {"ready", "exited"}

GetRegs(c) ==
  /\ UNCHANGED linuxIoVars
  /\ proc = "running"
  /\ cpus[c].st \in {"cpu"} \cup RunnerCallable
  /\ \E raw \in RawResults({0}) :
       LET res == File_ioctl(raw)
       IN sys' = Call("get_regs", c, <<>>,
                      <<Sys("ioctl", cpus[c].fd, "KVM_GET_REGS", <<>>)>>,
                      {KernelErr(raw)} \ {0},
                      IF IsOk(res) THEN Ok(cpus[c].regs) ELSE res, <<>>)
  /\ UNCHANGED <<kvm, vms, cpus, regions, fdtab, maps, proc>>

\* VirtualCpu::set_regs, VirtualCpuRunner::set_regs
SetRegs(c, new) ==
  /\ UNCHANGED linuxIoVars
  /\ proc = "running"
  /\ cpus[c].st \in {"cpu"} \cup RunnerCallable
  /\ \E raw \in RawResults({0}) :
       LET res == File_ioctl(raw)
       IN /\ sys' = Call("set_regs", c, new,
                         <<Sys("ioctl", cpus[c].fd, "KVM_SET_REGS", new)>>,
                         {KernelErr(raw)} \ {0},
                         IF IsOk(res) THEN Ok(<<>>) ELSE res, <<>>)
          /\ cpus' = IF IsOk(res) THEN [cpus EXCEPT ![c].regs = new] ELSE cpus
  /\ UNCHANGED <<kvm, vms, regions, fdtab, maps, proc>>

\* the closures modify_regs is called with: one that leaves the copy as it
\* is and one that changes rip in it
RegClosures == {"keep", "flip"}
\* closures that have captured a shared reference to the runner and call
\* set_regs on it before they edit the copy
SharingClosures == {"keep_set", "flip_set"}
CallsSetRegs(f) == f \in SharingClosures
\* the register set such a closure writes
ClosureSet == Regs(1, 1)
ApplyReg(f, regs) ==
  IF f \in {"keep", "keep_set"} THEN regs ELSE [regs EXCEPT !.rip = 1 - @]
\* what the closures return: the rip they were shown
ClosureResult(f, regs) == regs.rip

\* a modify_regs that calls the closure whether or not the read succeeded
modify_regs_calls_always(got) == 1

\* `let mut regs = self.get_regs()?; let ret = f(&mut regs);`: the closure is
\* called once, after a read that succeeded
modify_regs_calls(got) == IF IsOk(got) THEN 1 ELSE 0

\* a write-back of the closure's edit applied to the registers as they are
\* at the time of the write
WriteBackCurrent(f, seen, current) == ApplyReg(f, current)

\* `self.set_regs(&regs)`: the whole copy read by get_regs, as the closure
\* left it, whatever the registers are by now
WriteBack(f, seen, current) == ApplyReg(f, seen)

\* VirtualCpuRunner::modify_regs(&self, f): get_regs()?, f on the copy,
\* set_regs()?; the closure has run when the second request fails
ModifyRegs(c, f) ==
  /\ UNCHANGED linuxIoVars
  /\ proc = "running"
  /\ cpus[c].st \in RunnerCallable
  /\ \E rawGet \in RawResults({0}), rawIn \in RawResults({0}), rawSet \in RawResults({0}) :
       LET got == File_ioctl(rawGet)
           put == File_ioctl(rawSet)
           seen == cpus[c].regs
           inner == CallsSetRegs(f) /\ modify_regs_calls(got) = 1
           current == IF inner /\ IsOk(File_ioctl(rawIn)) THEN ClosureSet ELSE seen
           new == WriteBack(f, seen, current)
           get == Sys("ioctl", cpus[c].fd, "KVM_GET_REGS", <<>>)
           in == IF inner THEN <<Sys("ioctl", cpus[c].fd, "KVM_SET_REGS", ClosureSet)>>
                 ELSE <<>>
           set == Sys("ioctl", cpus[c].fd, "KVM_SET_REGS", new)
           log == [calls |-> modify_regs_calls(got), seen |-> seen,
                   result |-> ClosureResult(f, seen), current |-> current]
       IN /\ ~inner => rawIn = 0
          /\ IF IsErr(got)
             THEN /\ rawSet = 0
                  /\ sys' = Call("modify_regs", c, f, <<get>> \o in, {KernelErr(rawGet)},
                                 got, log)
                  /\ cpus' = [cpus EXCEPT ![c].regs = current]
             ELSE /\ sys' = Call("modify_regs", c, f, <<get>> \o in \o <<set>>,
                                 {KernelErr(rawSet)} \ {0},
                                 IF IsOk(put) THEN Ok(log.result) ELSE put, log)
                  /\ cpus' = [cpus EXCEPT ![c].regs = IF IsOk(put) THEN new ELSE current]
  /\ UNCHANGED <<kvm, vms, regions, fdtab, maps, proc>>

\* drop of a VirtualCpu that was not made a runner: closes the descriptor
DropCpu(c) ==
  /\ UNCHANGED linuxIoVars
  /\ proc = "running"
  /\ cpus[c].st \in {"cpu", "retired"}
  /\ cpus' = [cpus EXCEPT ![c] = [NoCpu EXCEPT !.st = "dropped", !.vm = cpus[c].vm]]
  /\ fdtab' = CloseFd(fdtab, cpus[c].fd)
  /\ sys' = Call("drop_cpu", c, <<>>, <<SysClose(cpus[c].fd)>>, {}, Ok(0), <<>>)
  /\ UNCHANGED <<kvm, vms, regions, maps, proc>>

\* a size check against the header of kvm_run alone, without the payload union
MmapSizeBelowHeader(mmap_size) == KvmRunHeaderSize > mmap_size

\* VirtualCpuRunner::new: is the reported size too small for a kvm_run?
MmapSizeTooSmall(mmap_size) == KvmRunSize > mmap_size

\* a size query sent to the vCPU's own descriptor
mmap_size_fd_vcpu(c) == cpus[c].fd

\* to_runner's self.kvm.get_vcpu_mmap_size(): the descriptor of the borrowed Kvm
mmap_size_fd(c) == kvm.fd

\* VirtualCpu::to_runner(self): get_vcpu_mmap_size on the borrowed Kvm, then
\* VirtualCpuRunner::new.  On every error path the consumed VirtualCpu is
\* dropped, which closes its descriptor.
\* a failed to_runner that forgets the VirtualCpu it was given
ToRunnerFailedLeaks(c, reqs) == reqs

\* the system calls of a to_runner that fails: VirtualCpuRunner::new owns the
\* VirtualCpu (cpu: VirtualCpu), so the `?` that returns the error drops it,
\* and the drop of its File closes the descriptor
ToRunnerFailedCalls(c, reqs) == reqs \o <<SysClose(cpus[c].fd)>>

ToRunner(c) ==
  /\ UNCHANGED linuxIoVars
  /\ proc = "running"
  /\ cpus[c].st = "cpu"
  /\ \E rawSize \in RawResults(MmapSizes), rawMap \in RawResults(FreeAddrs) :
       LET size == File_ioctl(rawSize)
           map == raw_result(rawMap)
           query == Sys("ioctl", mmap_size_fd(c), "KVM_GET_VCPU_MMAP_SIZE", <<>>)
           mmap == Sys("mmap", cpus[c].fd, "",
                       [addr |-> 0, length |-> size[2], prot |-> PROT_READ_WRITE,
                        flags |-> MAP_SHARED, offset |-> 0])
           failed(reqs, kerr, ret) ==
             /\ sys' = Call("to_runner", c, cpus[c].fd, ToRunnerFailedCalls(c, reqs),
                            kerr, ret, rawSize)
             /\ cpus' = [cpus EXCEPT ![c] =
                          [NoCpu EXCEPT !.st = "dropped", !.vm = cpus[c].vm]]
             /\ fdtab' = IF \E i \in 1..Len(ToRunnerFailedCalls(c, reqs)) :
                               ToRunnerFailedCalls(c, reqs)[i][1] = "close"
                          THEN CloseFd(fdtab, cpus[c].fd) ELSE fdtab
             /\ maps' = maps
       IN IF IsErr(size)
          THEN failed(<<query>>, {KernelErr(rawSize)}, size)
          ELSE IF MmapSizeTooSmall(size[2])
          THEN failed(<<query>>, {}, Err(ENOMEM))
          ELSE IF IsErr(map)
          THEN failed(<<query, mmap>>, {KernelErr(rawMap)}, map)
          ELSE /\ sys' = Call("to_runner", c, cpus[c].fd, <<query, mmap>>, {}, Ok(c), rawSize)
               /\ cpus' = [cpus EXCEPT ![c].st = "ready", ![c].run = map[2],
                                       ![c].run_len = size[2],
                                       ![c].mapped = <<map[2], size[2]>>]
               /\ maps' = maps \cup {Mapping(map[2], size[2], <<"vcpu", c>>)}
               /\ fdtab' = fdtab
  /\ UNCHANGED <<kvm, vms, regions, proc>>

\* -------------------------------------------------------- VirtualCpuRunner
\* kernel: the payload variant it fills in for an exit reason
\* (KVM_EXIT_UNKNOWN, KVM_EXIT_IO)
VariantOf(reason) ==
  CASE reason = 0 -> "hw"
    [] reason = 2 -> "io"
    [] OTHER -> "padding"

Pages == [request_interrupt_window : 0..1, immediate_exit : 0..1,
          exit_reason : ExitReasons, tag : {VariantOf(x) : x \in ExitReasons}]

\* the control page the host finds behind a pointer: the kvm_run of the vCPU
\* whose descriptor is mapped there; behind any other pointer, anything
PageAt(ptr) ==
  LET here == {m \in maps : m.addr = ptr /\ m.obj[1] = "vcpu"}
  IN IF here = {} THEN Pages ELSE {cpus[m.obj[2]].page : m \in here}

\* a run that gives the runner up when the request fails
AfterRunConsumed(res) == IF IsOk(res) THEN "exited" ELSE "closed"

\* run_raw takes the runner by reference: it is a runner that has exited a
\* run, whatever the result of the run
AfterRun(res) == "exited"

\* a null pointer in place of the mapped control page
RunStateNull(c) == 0

\* the pointer with_raw_run_state dereferences
RunStatePtr(c) == cpus[c].run

\* a run that clears the immediate-exit request before it enters the kernel
RunBeginClearsExit(c) ==
  [cpus[c] EXCEPT !.st = "running", !.page.immediate_exit = 0]

\* what run_raw does to the vCPU before the request: nothing but the ioctl,
\* the control page is left as the caller prepared it
RunBeginCpu(c) == [cpus[c] EXCEPT !.st = "running"]

\* VirtualCpuRunner::run_raw(&mut self), first half: the KVM_RUN request is
\* issued and the calling thread blocks in the kernel
RunBegin(c) ==
  /\ UNCHANGED linuxIoVars
  /\ proc = "running"
  /\ cpus[c].st \in RunnerCallable
  /\ cpus' = [cpus EXCEPT ![c] = RunBeginCpu(c)]
  /\ sys' = Call("run_raw", c, <<>>, <<Sys("ioctl", cpus[c].fd, "KVM_RUN", 0)>>,
                 {}, <<"Blocked", 0>>, <<>>)
  /\ UNCHANGED <<kvm, vms, regions, fdtab, maps, proc>>

\* VirtualCpuRunner::run_raw, second half: the kernel returns.  On success it
\* has written the exit reason and the matching payload; on failure the
\* contents of the control page are undefined.  The two header fields the
\* host writes are inputs of the kernel and stay as they are.  The guest may
\* have changed the registers.
RunReturn(c) ==
  /\ UNCHANGED linuxIoVars
  /\ proc = "running"
  /\ cpus[c].st = "running"
  /\ \E raw \in RawResults({0}), reason \in ExitReasons,
        tag \in {VariantOf(x) : x \in ExitReasons}, regs \in RegVals :
       LET res == File_ioctl(raw)
       IN /\ IsOk(res) => tag = VariantOf(reason)
          /\ cpus' = [cpus EXCEPT ![c].st = AfterRun(res),
                                  ![c].page = [@ EXCEPT !.exit_reason = reason,
                                                        !.tag = tag],
                                  ![c].last = IF IsOk(res) THEN "ok" ELSE "err",
                                  ![c].regs = regs]
          /\ sys' = Call("run_raw", c, <<>>, <<Sys("ioctl", cpus[c].fd, "KVM_RUN", 0)>>,
                         {KernelErr(raw)} \ {0},
                         IF IsOk(res) THEN Ok(<<>>) ELSE res, <<>>)
  /\ UNCHANGED <<kvm, vms, regions, fdtab, maps, proc>>

\* what a closure does to the header of the &mut kvm_run it is given: nothing,
\* or a store to one of the two fields the host may write
NoWrite == <<>>
HeaderWrites ==
  {NoWrite} \cup ({"request_interrupt_window", "immediate_exit"} \X (0..1))
WritePage(page, write) ==
  IF write = NoWrite THEN page ELSE [page EXCEPT ![write[1]] = write[2]]

\* VirtualCpuRunner::with_raw_run_state(&mut self, f): f gets the whole
\* kvm_run behind self.run mutably, the ExitDetails union included; it reads
\* the union field it chooses and stores what it chooses
WithRawRunState(c, variant, write) ==
  /\ UNCHANGED linuxIoVars
  /\ proc = "running"
  /\ cpus[c].st \in RunnerCallable
  /\ \E page \in PageAt(RunStatePtr(c)) :
       sys' = Call("with_raw_run_state", c, variant, <<>>, {}, Ok(<<>>),
                   [exit_reason |-> page.exit_reason, tag |-> page.tag,
                    last |-> cpus[c].last, write |-> write])
  /\ cpus' = [d \in CpuIds |->
               IF \E m \in maps : m.addr = RunStatePtr(c) /\ m.obj = <<"vcpu", d>>
               THEN [cpus[d] EXCEPT !.page = WritePage(@, write)]
               ELSE cpus[d]]
  /\ UNCHANGED <<kvm, vms, regions, fdtab, maps, proc>>

\* a munmap of the size of the struct instead of the mapped length
RunnerUnmapStruct(c) == <<cpus[c].run, KvmRunSize>>

\* the munmap call of Drop for VirtualCpuRunner
RunnerUnmapCall(c) == <<cpus[c].run, cpus[c].run_len>>

\* a teardown that closes the descriptor before it unmaps the control page
RunnerDropCloseFirst(c) ==
  <<SysClose(cpus[c].fd), Sys("munmap", -1, "", RunnerUnmapCall(c))>>

\* the system calls of a runner's drop: Drop::drop runs first (munmap), the
\* fields are dropped after it (vcpu.f: close)
RunnerDropCalls(c) ==
  <<Sys("munmap", -1, "", RunnerUnmapCall(c)), SysClose(cpus[c].fd)>>

\* the calls made up to and including the munmap, where a panic that aborts
\* stops the drop
RECURSIVE UpToMunmap(_)
UpToMunmap(calls) ==
  IF calls = <<>> \/ calls[1][1] = "munmap" THEN SubSeq(calls, 1, 1)
  ELSE <<calls[1]>> \o UpToMunmap(Tail(calls))

\* Drop for VirtualCpuRunner: munmap(run, run_len).unwrap(), and then the
\* vcpu field is dropped, which closes the descriptor
DropRunner(c) ==
  /\ UNCHANGED linuxIoVars
  /\ proc = "running"
  /\ cpus[c].st \in {"ready", "exited"}
  /\ \E raw \in RawResults({0}), how \in PanicStrategies :
       LET res == raw_result(raw)
           call == RunnerUnmapCall(c)
           out == DropUnwrap(res, how)
       IN /\ cpus' = [cpus EXCEPT ![c] =
                      [NoCpu EXCEPT !.st = "closed", !.vm = cpus[c].vm,
                                    !.unmaps = cpus[c].unmaps + 1,
                                    !.unmapFailed = IsErr(res),
                                    !.panicked = out.panicked]]
          /\ maps' = IF IsOk(res) THEN Unmapped(call[1], call[2]) ELSE maps
          /\ proc' = out.proc
          /\ LET issued == IF out.proc = "aborted" THEN UpToMunmap(RunnerDropCalls(c))
                           ELSE RunnerDropCalls(c)
             IN /\ fdtab' = IF \E i \in 1..Len(issued) : issued[i][1] = "close"
                             THEN CloseFd(fdtab, cpus[c].fd) ELSE fdtab
                /\ sys' = Call("drop_runner", c, <<>>, issued,
                               {KernelErr(raw)} \ {0}, res, cpus[c].mapped)
  /\ UNCHANGED <<kvm, vms, regions>>

\* ------------------------------------------------------ the specifications
\* MemoryRegion values made so far
RegionsMade == Cardinality({r \in RegIds : regions[r].st # "none"})

\* the calls on the Kvm
KvmCalls ==
  \/ GetApiVersion
  \/ \E ext \in Extensions : CheckExtension(ext)
  \/ GetVcpuMmapSize

\* VirtualCpu values made so far
CpusMade == Cardinality({c \in CpuIds : cpus[c].st # "none"})

\* the life of a vCPU, from the VirtualCpu to the drop of it or of its runner
CpuCalls ==
  \/ \E c \in CpuIds : DropCpu(c)
  \/ \E c \in CpuIds : ToRunner(c)
  \/ \E c \in CpuIds : RunBegin(c)
  \/ \E c \in CpuIds : RunReturn(c)
  \/ \E c \in CpuIds : DropRunner(c)

\* register and control-page access
StateCalls ==
  \/ \E c \in CpuIds : GetRegs(c)
  \/ \E c \in CpuIds, new \in RegVals : SetRegs(c, new)
  \/ \E c \in CpuIds, variant \in Variants : WithRawRunState(c, variant, NoWrite)

\* guest memory
MemCalls ==
  \/ \E v \in VmIds, a \in SlotArgs, r \in RegIds :
       SetGuestMemoryRegion(v, a[1], a[2], a[3], r)
  \/ \E r \in RegIds : DropRegion(r)

\* every operation of the crate, with one vCPU and one MemoryRegion
Next ==
  \/ KvmOpen
  \/ CreateVm
  \/ DropKvm
  \/ \E v \in VmIds : DropVm(v)
  \/ \E v \in VmIds, ext \in Extensions : VmCheckExtension(v, ext)
  \/ KvmCalls
  \/ \E v \in VmIds, id \in CpuNums : CpusMade < 1 /\ CreateVcpu(v, id)
  \/ CpuCalls
  \/ StateCalls
  \/ MemCalls
  \/ \E length \in Lengths : RegionsMade < 1 /\ MemoryRegionNew(length)

Spec == Init /\ [][Next]_vars

\* a vCPU and its runner, without guest memory
NextRun ==
  \/ KvmOpen
  \/ CreateVm
  \/ DropKvm
  \/ \E v \in VmIds : DropVm(v)
  \/ \E v \in VmIds, id \in CpuNums : CpusMade < 1 /\ CreateVcpu(v, id)
  \/ CpuCalls
  \/ StateCalls

SpecRun == Init /\ [][NextRun]_vars

\* the vCPUs of a VM, before they are made runners
NextVcpu ==
  \/ KvmOpen
  \/ CreateVm
  \/ \E v \in VmIds : DropVm(v)
  \/ \E v \in VmIds, id \in CpuNums : CreateVcpu(v, id)
  \/ \E c \in CpuIds : DropCpu(c)
  \/ \E c \in CpuIds : GetRegs(c)
  \/ \E c \in CpuIds, new \in RegVals : SetRegs(c, new)

SpecVcpu == Init /\ [][NextVcpu]_vars

\* guest memory and the one vCPU that runs on it, with two MemoryRegions
NextMem ==
  \/ KvmOpen
  \/ CreateVm
  \/ \E v \in VmIds : DropVm(v)
  \/ \E v \in VmIds, id \in CpuNums : CpusMade < 1 /\ CreateVcpu(v, id)
  \/ CpuCalls
  \/ MemCalls
  \/ \E length \in Lengths : RegionsMade < 2 /\ MemoryRegionNew(length)

SpecMem == Init /\ [][NextMem]_vars

\* the slots of a VM, without vCPUs
NextSlots ==
  \/ KvmOpen
  \/ CreateVm
  \/ \E v \in VmIds : DropVm(v)
  \/ \E v \in VmIds, a \in SlotArgs, r \in RegIds :
       SetGuestMemoryRegion(v, a[1], a[2], a[3], r)
  \/ \E length \in Lengths : MemoryRegionNew(length)

SpecSlots == Init /\ [][NextSlots]_vars

\* the registers of a vCPU: every register set, and closures that edit the
\* copy they are given or write to the runner they have captured
NextRegs ==
  \/ KvmOpen
  \/ CreateVm
  \/ \E v \in VmIds, id \in CpuNums : CpusMade < 1 /\ CreateVcpu(v, id)
  \/ CpuCalls
  \/ \E c \in CpuIds : GetRegs(c)
  \/ \E c \in CpuIds, new \in RegSets : SetRegs(c, new)
  \/ \E c \in CpuIds, f \in RegClosures \cup SharingClosures : ModifyRegs(c, f)

SpecRegs == Init /\ [][NextRegs]_vars

\* the control page between runs: closures that store to its header, and every
\* call of a runner
NextPage ==
  \/ KvmOpen
  \/ CreateVm
  \/ \E v \in VmIds, id \in CpuNums : CpusMade < 1 /\ CreateVcpu(v, id)
  \/ CpuCalls
  \/ \E c \in CpuIds : GetRegs(c)
  \/ \E c \in CpuIds, new \in RegVals : SetRegs(c, new)
  \/ \E c \in CpuIds, f \in RegClosures : ModifyRegs(c, f)
  \/ \E c \in CpuIds, variant \in Variants, write \in HeaderWrites :
       WithRawRunState(c, variant, write)

SpecPage == Init /\ [][NextPage]_vars

\* <<slot, flags, guest_phys_addr>> of every kind: known flags and an aligned
\* address, an unknown flag bit (1 << 2) and an address inside a page
DescArgs == {<<0, 0, 0>>, <<1, KVM_MEM_READONLY, 4096>>, <<2, 4, 1>>}

\* the descriptors a VM is sent, for arguments the kernel would refuse as well
NextDesc ==
  \/ KvmOpen
  \/ CreateVm
  \/ \E v \in VmIds : DropVm(v)
  \/ \E v \in VmIds, a \in DescArgs, r \in RegIds :
       SetGuestMemoryRegion(v, a[1], a[2], a[3], r)
  \/ RegionsMade < 2 /\ \E length \in Lengths : MemoryRegionNew(length)

SpecDesc == Init /\ [][NextDesc]_vars

\* ---------------------------------------------- request codes and layouts

\* an encoding whose size field starts inside the type field
_IOC_size_at_8(dir, typ, nr, size) ==
  BitOr(BitOr(BitOr(Shl(ToWord(dir), 30), Shl(ToWord(typ), 8)), Shl(ToWord(nr), 0)),
        Shl(ToWord(size), 8))

\* (dir << 30) | (typ << 8) | (nr << 0) | (size << 16)
_IOC(dir, typ, nr, size) ==
  BitOr(BitOr(BitOr(Shl(ToWord(dir), 30), Shl(ToWord(typ), 8)), Shl(ToWord(nr), 0)),
        Shl(ToWord(size), 16))
_IO(typ, nr) == _IOC(0, typ, nr, 0)
_IOR(typ, nr, size) == _IOC(2, typ, nr, size)
_IOW(typ, nr, size) == _IOC(1, typ, nr, size)

\* the primitive types of the raw structs: size and alignment in bytes
u32 == [size |-> 4, align |-> 4]
u64 == [size |-> 8, align |-> 8]
c_int == [size |-> 4, align |-> 4]
Field(name, type) == [name |-> name, type |-> type]

\* the older descriptor without a host address
kvm_memory_region ==
  <<Field("slot", u32), Field("flags", u32), Field("guest_phys_addr", u64),
    Field("memory_size", u64)>>

\* #[repr(C)] struct kvm_userspace_memory_region
kvm_userspace_memory_region ==
  <<Field("slot", u32), Field("flags", u32), Field("guest_phys_addr", u64),
    Field("memory_size", u64), Field("userspace_addr", u64)>>

\* #[repr(C)] struct kvm_regs (x86_64): rax .. r15, rip, rflags
kvm_regs ==
  [i \in 1..18 |->
     Field(<<"rax", "rbx", "rcx", "rdx", "rsi", "rdi", "rsp", "rbp", "r8", "r9", "r10",
             "r11", "r12", "r13", "r14", "r15", "rip", "rflags">>[i], u64)]

AlignUp(x, a) == ((x + a - 1) \div a) * a
\* #[repr(C)]: each field at the next offset its alignment allows
RECURSIVE OffsetOf(_, _)
OffsetOf(fields, i) ==
  IF i = 1 THEN 0
  ELSE AlignUp(OffsetOf(fields, i - 1) + fields[i - 1].type.size, fields[i].type.align)
\* core::mem::size_of of a #[repr(C)] struct: the end of the last field,
\* rounded up to the largest alignment
size_of(fields) ==
  LET n == Len(fields)
      align == CHOOSE a \in {fields[i].type.align : i \in 1..n} :
                 \A i \in 1..n : fields[i].type.align <= a
  IN AlignUp(OffsetOf(fields, n) + fields[n].type.size, align)

KVMIO == 174
\* the request constants of linux-kvm: code and device marker
KVM_GET_API_VERSION == [code |-> _IO(KVMIO, 0), device |-> "KvmSystem"]
KVM_CREATE_VM == [code |-> _IO(KVMIO, 1), device |-> "KvmSystem"]
KVM_CHECK_EXTENSION == [code |-> _IOW(KVMIO, 3, c_int.size), device |-> "KvmSystem"]
KVM_GET_VCPU_MMAP_SIZE == [code |-> _IO(KVMIO, 4), device |-> "KvmSystem"]
KVM_VM_CHECK_EXTENSION == [code |-> _IOW(KVMIO, 3, c_int.size), device |-> "KvmVm"]
KVM_CREATE_VCPU == [code |-> _IO(KVMIO, 65), device |-> "KvmVm"]
KVM_SET_USER_MEMORY_REGION ==
  [code |-> _IOW(KVMIO, 70, size_of(kvm_userspace_memory_region)), device |-> "KvmVm"]
KVM_RUN == [code |-> _IO(KVMIO, 128), device |-> "KvmVcpu"]
KVM_GET_REGS == [code |-> _IOR(KVMIO, 129, size_of(kvm_regs)), device |-> "KvmVcpu"]
KVM_SET_REGS == [code |-> _IOW(KVMIO, 130, size_of(kvm_regs)), device |-> "KvmVcpu"]

Requests ==
  [KVM_GET_API_VERSION |-> KVM_GET_API_VERSION, KVM_CREATE_VM |-> KVM_CREATE_VM,
   KVM_CHECK_EXTENSION |-> KVM_CHECK_EXTENSION,
   KVM_GET_VCPU_MMAP_SIZE |-> KVM_GET_VCPU_MMAP_SIZE,
   KVM_VM_CHECK_EXTENSION |-> KVM_VM_CHECK_EXTENSION,
   KVM_CREATE_VCPU |-> KVM_CREATE_VCPU,
   KVM_SET_USER_MEMORY_REGION |-> KVM_SET_USER_MEMORY_REGION,
   KVM_RUN |-> KVM_RUN, KVM_GET_REGS |-> KVM_GET_REGS, KVM_SET_REGS |-> KVM_SET_REGS]
Structs ==
  [kvm_userspace_memory_region |-> kvm_userspace_memory_region, kvm_regs |-> kvm_regs]

\* arguments _IOC is applied to: in and at the ends of each field's range
Dirs == 0..3
Types == {0, KVMIO, 255}
Numbers == {0, 1, 70, 128, 255}
Sizes == {0, 4, 32, 144, 16383}

\* one evaluation of _IOC
Encode(dir, typ, nr, size) ==
  /\ UNCHANGED linuxIoVars
  /\ sys' = Call("_IOC", 0, <<dir, typ, nr, size>>, <<>>, {}, Ok(_IOC(dir, typ, nr, size)), <<>>)
  /\ UNCHANGED <<kvm, vms, cpus, regions, fdtab, maps, proc>>

\* one evaluation of a request constant
RequestCode(name) ==
  /\ UNCHANGED linuxIoVars
  /\ sys' = Call("request", 0, name, <<>>, {}, Ok(Requests[name].code), <<>>)
  /\ UNCHANGED <<kvm, vms, cpus, regions, fdtab, maps, proc>>

\* one evaluation of core::mem::size_of::<T>()
SizeOfStruct(name) ==
  /\ UNCHANGED linuxIoVars
  /\ sys' = Call("size_of", 0, name, <<>>, {}, Ok(size_of(Structs[name])), <<>>)
  /\ UNCHANGED <<kvm, vms, cpus, regions, fdtab, maps, proc>>

NextCodes ==
  \/ \E dir \in Dirs, typ \in Types, nr \in Numbers, size \in Sizes : Encode(dir, typ, nr, size)
  \/ \E name \in DOMAIN Requests : RequestCode(name)
  \/ \E name \in DOMAIN Structs : SizeOfStruct(name)

SpecCodes == Init /\ [][NextCodes]_vars

\* ------------------------------------------------ linux-io: the futex Mutex
\* compare_exchange(UNLOCKED, LOCKED): does it take the lock for this value?
CasTakes(word) == word = UNLOCKED

\* a swap that counts as an acquisition whatever value it replaced
SwapAcquiredAlways(old) == TRUE

\* lock_contended: swap(CONTENDED) == UNLOCKED means the swap took the lock
SwapAcquired(old) == old = UNLOCKED

\* the threads asleep in futex_wait
Sleepers == {t \in ThreadIds : threads[t].pc = "sleeping"}
\* the threads that own a MutexGuard
GuardPcs == {"held", "read", "written"}
Guards == {t \in ThreadIds : threads[t].pc \in GuardPcs}

Thread(t, pc, state, spin) ==
  [threads EXCEPT ![t].pc = pc, ![t].state = state, ![t].spin = spin]
FutexCall(op, val) == Sys("futex", -1, op, val)
SyncStep(op, t, reqs, ret) ==
  /\ sys' = Call(op, t, <<>>, reqs, {}, ret, <<>>)
  /\ UNCHANGED <<kvmVars, fdtab, files, iterVars>>

\* Mutex::lock, the fast path of Futex::lock: one compare_exchange; when it
\* fails the thread enters lock_contended and its first spin
MutexLock(t) ==
  /\ threads[t].pc = "idle"
  /\ threads[t].used < MaxRounds
  /\ IF CasTakes(futex_word)
     THEN /\ futex_word' = LOCKED
          /\ threads' = [Thread(t, "held", 0, 0) EXCEPT ![t].used = @ + 1]
     ELSE /\ futex_word' = futex_word
          /\ threads' = [Thread(t, "spin_first", 0, SpinLimit) EXCEPT ![t].used = @ + 1]
  /\ data' = data
  /\ SyncStep("lock", t, <<>>, <<"Blocked", 0>>)

\* Mutex::try_lock: one compare_exchange, Ok(guard) or Err(())
MutexTryLock(t) ==
  /\ threads[t].pc = "idle"
  /\ threads[t].used < MaxRounds
  /\ IF CasTakes(futex_word)
     THEN /\ futex_word' = LOCKED
          /\ threads' = [Thread(t, "held", 0, 0) EXCEPT ![t].used = @ + 1]
          /\ SyncStep("try_lock", t, <<>>, Ok(t))
     ELSE /\ futex_word' = futex_word
          /\ threads' = [threads EXCEPT ![t].used = @ + 1]
          /\ SyncStep("try_lock", t, <<>>, Err(0))
  /\ data' = data

\* Futex::spin, one iteration: load the word; return it when it is not LOCKED
\* or the iterations are used up.  After the first spin an UNLOCKED word is
\* followed by a compare_exchange, anything else by the loop.
Spin(t) ==
  /\ threads[t].pc \in {"spin_first", "spin_loop"}
  /\ IF futex_word # LOCKED \/ threads[t].spin = 0
     THEN threads' = Thread(t, IF threads[t].pc = "spin_first" /\ futex_word = UNLOCKED
                               THEN "cas_retry" ELSE "loop",
                            futex_word, 0)
     ELSE threads' = [threads EXCEPT ![t].spin = @ - 1]
  /\ UNCHANGED <<futex_word, data>>
  /\ SyncStep("spin", t, <<>>, <<"Blocked", 0>>)

\* lock_contended: the compare_exchange after the first spin; Err(s) gives
\* the state the loop starts with
CasRetry(t) ==
  /\ threads[t].pc = "cas_retry"
  /\ IF CasTakes(futex_word)
     THEN /\ futex_word' = LOCKED
          /\ threads' = Thread(t, "held", 0, 0)
     ELSE /\ futex_word' = futex_word
          /\ threads' = Thread(t, "loop", futex_word, 0)
  /\ data' = data
  /\ SyncStep("lock_contended", t, <<>>, <<"Blocked", 0>>)

\* lock_contended, head of the loop: unless state is CONTENDED already, swap
\* CONTENDED in; the lock is taken when the swap replaced UNLOCKED
LoopSwap(t) ==
  /\ threads[t].pc = "loop"
  /\ IF threads[t].state # CONTENDED
     THEN /\ futex_word' = CONTENDED
          /\ threads' = IF SwapAcquired(futex_word)
                        THEN Thread(t, "held", 0, 0)
                        ELSE Thread(t, "wait", 0, 0)
     ELSE /\ futex_word' = futex_word
          /\ threads' = Thread(t, "wait", 0, 0)
  /\ data' = data
  /\ SyncStep("lock_contended", t, <<>>, <<"Blocked", 0>>)

\* lock_contended: futex_wait(CONTENDED), result discarded.  The kernel puts
\* the thread to sleep only while the word is CONTENDED; otherwise, or when
\* it fails the call, the thread goes on to spin again.
FutexWait(t) ==
  /\ threads[t].pc = "wait"
  /\ \E sleeps \in BOOLEAN :
       /\ sleeps => futex_word = CONTENDED
       /\ threads' = IF sleeps THEN Thread(t, "sleeping", 0, 0)
                     ELSE Thread(t, "spin_loop", 0, SpinLimit)
  /\ UNCHANGED <<futex_word, data>>
  /\ SyncStep("futex_wait", t, <<FutexCall("FUTEX_WAIT", CONTENDED)>>, <<"Blocked", 0>>)

\* kernel: a sleeping thread returns from futex_wait without a wake (a signal)
FutexInterrupted(t) ==
  /\ threads[t].pc = "sleeping"
  /\ threads' = Thread(t, "spin_loop", 0, SpinLimit)
  /\ UNCHANGED <<futex_word, data>>
  /\ SyncStep("futex_wait", t, <<>>, <<"Blocked", 0>>)

\* DerefMut for MutexGuard, `*g += 1`: the read
GuardRead(t) ==
  /\ threads[t].pc = "held"
  /\ threads' = [threads EXCEPT ![t].pc = "read", ![t].tmp = data]
  /\ UNCHANGED <<futex_word, data>>
  /\ SyncStep("deref", t, <<>>, Ok(data))

\* `*g += 1`: the write of the value read plus one
GuardWrite(t) ==
  /\ threads[t].pc = "read"
  /\ data' = threads[t].tmp + 1
  /\ threads' = [threads EXCEPT ![t].pc = "written", ![t].tmp = 0, ![t].done = @ + 1]
  /\ UNCHANGED futex_word
  /\ SyncStep("deref_mut", t, <<>>, Ok(threads[t].tmp + 1))

\* an unlock that wakes nobody
UnlockWakesNever(old) == FALSE

\* Futex::unlock: the word that the swap replaced decides about the wake
UnlockWakes(old) == old = CONTENDED

\* Drop for MutexGuard, Futex::unlock: swap UNLOCKED in; a CONTENDED word is
\* followed by a wake
GuardDrop(t) ==
  /\ threads[t].pc \in {"held", "written"}
  /\ futex_word' = UNLOCKED
  /\ threads' = Thread(t, IF UnlockWakes(futex_word) THEN "wake" ELSE "idle", 0, 0)
  /\ data' = data
  /\ SyncStep("unlock", t, <<>>, Ok(0))

\* Futex::wake: futex_wake of one thread, result discarded.  The kernel wakes
\* one of the sleepers when there is one.
FutexWake(t) ==
  /\ threads[t].pc = "wake"
  /\ \E w \in IF Sleepers = {} THEN {t} ELSE Sleepers :
       threads' = IF w = t THEN Thread(t, "idle", 0, 0)
                  ELSE [Thread(t, "idle", 0, 0) EXCEPT
                          ![w].pc = "spin_loop", ![w].spin = SpinLimit]
  /\ UNCHANGED <<futex_word, data>>
  /\ SyncStep("futex_wake", t, <<FutexCall("FUTEX_WAKE", 1)>>, Ok(0))

\* threads that lock, try to lock, add to the counter and drop their guards
NextSync ==
  \/ \E t \in ThreadIds : MutexLock(t)
  \/ \E t \in ThreadIds : MutexTryLock(t)
  \/ \E t \in ThreadIds : Spin(t)
  \/ \E t \in ThreadIds : CasRetry(t)
  \/ \E t \in ThreadIds : LoopSwap(t)
  \/ \E t \in ThreadIds : FutexWait(t)
  \/ \E t \in ThreadIds : FutexInterrupted(t)
  \/ \E t \in ThreadIds : GuardRead(t)
  \/ \E t \in ThreadIds : GuardWrite(t)
  \/ \E t \in ThreadIds : GuardDrop(t)
  \/ \E t \in ThreadIds : FutexWake(t)

SpecSync == Init /\ [][NextSync]_vars

\* -------------------------------------------------- linux-io: plain Files
\* kernel: the descriptor table after close(fd) answered raw.  A close that
\* reports an error may have released the descriptor all the same.
KernelClose(tab, fd, raw, released) ==
  IF raw = 0 \/ released THEN CloseFd(tab, fd) ELSE tab

FileStep(op, i, fd, reqs, kerr, ret) ==
  /\ sys' = Call(op, i, fd, reqs, kerr, ret, <<>>)
  /\ UNCHANGED <<kvmVars, futex_word, data, threads, iterVars>>

\* File::open: one openat; the descriptor becomes the File's
FileOpen(i) ==
  /\ files[i].st = "none"
  /\ \E raw \in RawResults(LowestFreeFd) :
       LET res == raw_result(raw)
       IN /\ FileStep("file_open", i, 0, <<File_open("file", OpenOptions_read_write)>>,
                      {KernelErr(raw)} \ {0}, res)
          /\ IF IsOk(res)
             THEN /\ files' = [files EXCEPT ![i] = [st |-> "open", fd |-> res[2], err |-> 0]]
                  /\ fdtab' = [fdtab EXCEPT ![res[2]] = "file"]
             ELSE UNCHANGED <<files, fdtab>>

\* File::close(mut self), up to the `?`: close_mut().  On success self is
\* forgotten and Ok(()) returned; on failure the function is about to return
\* the error, with self still owned by it.
FileClose(i) ==
  /\ files[i].st = "open"
  /\ \E raw \in RawResults({0}), released \in BOOLEAN :
       LET res == raw_result(raw)
       IN /\ fdtab' = KernelClose(fdtab, files[i].fd, raw, released)
          /\ IF IsOk(res)
             THEN /\ released
                  /\ files' = [files EXCEPT ![i] = [NoFile EXCEPT !.st = "closed"]]
                  /\ FileStep("file_close", i, files[i].fd, <<SysClose(files[i].fd)>>,
                              {}, Ok(<<>>))
             ELSE /\ files' = [files EXCEPT ![i].st = "failing", ![i].err = res[2]]
                  /\ FileStep("file_close", i, files[i].fd, <<SysClose(files[i].fd)>>,
                              {KernelErr(raw)}, <<"Failing", res[2]>>)

\* File::close, the return of the error: self goes out of scope without
\* having been forgotten, so Drop for File runs close_mut on self.fd once
\* more and discards the result.  The kernel closes whatever that number is
\* open on by now.
FileCloseReturn(i) ==
  /\ files[i].st = "failing"
  /\ fdtab' = CloseFd(fdtab, files[i].fd)
  /\ files' = [files EXCEPT ![i] = [NoFile EXCEPT !.st = "closed"]]
  /\ FileStep("file_close", i, files[i].fd, <<SysClose(files[i].fd)>>, {},
              Err(files[i].err))

\* Drop for File: close_mut, the result discarded
FileDrop(i) ==
  /\ files[i].st = "open"
  /\ \E raw \in RawResults({0}), released \in BOOLEAN :
       /\ raw = 0 => released
       /\ fdtab' = KernelClose(fdtab, files[i].fd, raw, released)
       /\ files' = [files EXCEPT ![i] = [NoFile EXCEPT !.st = "dropped"]]
       /\ FileStep("file_drop", i, files[i].fd, <<SysClose(files[i].fd)>>, {}, Ok(0))

\* Files opened, closed and dropped by the threads of a process
NextFile ==
  \/ \E i \in FileIds : FileOpen(i)
  \/ \E i \in FileIds : FileClose(i)
  \/ \E i \in FileIds : FileCloseReturn(i)
  \/ \E i \in FileIds : FileDrop(i)

SpecFile == Init /\ [][NextFile]_vars

\* ------------------------------------------------- linux-io: PollResponse
\* the revents values a response is read from: every combination of the six
\* result bits, with and without one bit no method tests (POLLRDNORM, 0x40)
MaxRevents == 127
Revents == 0..MaxRevents

POLLIN == 1
POLLPRI == 2
POLLOUT == 4
POLLERR == 8
POLLHUP == 16
POLLNVAL == 32

\* revents & mask, for a mask of one bit
AndBit(revents, mask) == IF (revents \div mask) % 2 = 1 THEN mask ELSE 0

PollResponse_readable(revents) == AndBit(revents, POLLIN) # 0
PollResponse_writable(revents) == AndBit(revents, POLLOUT) # 0
PollResponse_error(revents) == AndBit(revents, POLLERR) # 0
PollResponse_hung_up(revents) == AndBit(revents, POLLERR) # 0
PollResponse_exception(revents) == AndBit(revents, POLLPRI) # 0
PollResponse_invalid(revents) == AndBit(revents, POLLNVAL) # 0

\* a call that touches no kernel object: the log holds the receiver and the
\* value returned
PureStep(op, obj, arg, value, aux) ==
  /\ sys' = Call(op, obj, arg, <<>>, {}, <<"value", value>>, aux)
  /\ UNCHANGED <<kvmVars, fdtab, linuxIoVars>>

Readable(revents) == PureStep("readable", revents, <<>>, PollResponse_readable(revents), <<>>)
Writable(revents) == PureStep("writable", revents, <<>>, PollResponse_writable(revents), <<>>)
Error(revents) == PureStep("error", revents, <<>>, PollResponse_error(revents), <<>>)
HungUp(revents) == PureStep("hung_up", revents, <<>>, PollResponse_hung_up(revents), <<>>)
Exception(revents) == PureStep("exception", revents, <<>>, PollResponse_exception(revents), <<>>)
Invalid(revents) == PureStep("invalid", revents, <<>>, PollResponse_invalid(revents), <<>>)

\* the methods of a PollResponse, on every revents value
NextPoll ==
  \/ \E revents \in Revents : Readable(revents)
  \/ \E revents \in Revents : Writable(revents)
  \/ \E revents \in Revents : Error(revents)
  \/ \E revents \in Revents : HungUp(revents)
  \/ \E revents \in Revents : Exception(revents)
  \/ \E revents \in Revents : Invalid(revents)

SpecPoll == Init /\ [][NextPoll]_vars

\* ------------------------------------------ linux-io: DirEntries, getdents
\* size_of::<DirEntryHeader>() and offset_of!(DirEntryHeader, d_name)
HEADER_SIZE == 24
NAME_OFFSET == 19
\* align_of::<DirEntryHeader>(): that of its u64 fields
HeaderAlign == 8
EINVAL == 22
INT_MAX == 2147483647

\* length of the buffer given to getdents
MaxBuf == 64

\* no zero byte from the name's first byte to the end of the bytes
NoNul == 0 - 1

\* what stands at the start of a record: the two bytes of d_reclen (offsets
\* 16 and 17), the offset of the first zero byte at or after NAME_OFFSET, and
\* d_ino
Hdr(lo, hi, nul, ino) == [lo |-> lo, hi |-> hi, nul |-> nul, ino |-> ino]

\* record lengths: shorter than the header, the header alone, one that is no
\* multiple of the alignment, a longer one; with the high byte set each
\* exceeds every buffer
Headers == {Hdr(lo, hi, nul, 7) : lo \in {20, 24, 28, 32}, hi \in {0, 1},
                                  nul \in {NAME_OFFSET, 25, NoNul}}

\* hdr.d_reclen: a ushort read from two bytes of a little-endian machine
d_reclen(hdr) == hdr.lo + 256 * hdr.hi

\* byte contents of the first len bytes of a buffer at an address: a header
\* for every place where a record can start
Slices(addrs, len) ==
  {[addr |-> a, len |-> len, hdrs |-> h] :
     a \in addrs, h \in [1..(len \div HEADER_SIZE) -> Headers]}

\* &buf[n..]
SliceFrom(buf, n) ==
  [addr |-> (buf.addr + n) % HeaderAlign, len |-> buf.len - n, hdrs |-> Tail(buf.hdrs)]

\* how the build treats the dereference of a *const DirEntryHeader that is
\* not aligned: with debug assertions the dereference panics, without them
\* the load is made
Builds == {"checked", "unchecked"}

None == <<"None", <<>>>>
Some(v) == <<"Some", v>>
Panic(why) == <<"Panic", why>>

\* a parser that accepts records shorter than the header
claimed_len_ok_any(buf, claimed_len) == ~(buf.len < claimed_len)

\* the check of dir_entry_from_buf on d_reclen
claimed_len_ok(buf, claimed_len) ==
  ~(buf.len < claimed_len \/ claimed_len < HEADER_SIZE)

\* dir_entry_from_buf: the entry at the start of buf if there is one, and the
\* bytes after it; reads: the byte ranges of buf it looked at
dir_entry_from_buf(buf, build) ==
  IF buf.len < HEADER_SIZE
  THEN [ret |-> None, remain |-> buf, reads |-> {}]
  ELSE IF buf.addr % HeaderAlign # 0 /\ build = "checked"
  THEN [ret |-> Panic("misaligned"), remain |-> buf, reads |-> {}]
  ELSE LET hdr == Head(buf.hdrs)
           claimed_len == d_reclen(hdr)
           header == <<0, HEADER_SIZE>>
       IN IF ~claimed_len_ok(buf, claimed_len)
          THEN [ret |-> None, remain |-> buf, reads |-> {header}]
          ELSE LET raw_len == claimed_len
                   name == <<NAME_OFFSET, raw_len>>
               IN IF hdr.nul = NoNul \/ hdr.nul >= raw_len
                  THEN [ret |-> Panic("unwrap"), remain |-> buf,
                        reads |-> {header, name}]
                  ELSE [ret |-> Some([ino |-> hdr.ino,
                                      name_len |-> hdr.nul - NAME_OFFSET]),
                        remain |-> SliceFrom(buf, raw_len),
                        reads |-> {header, name}]

\* the buffer lengths getdents is called with, and the lengths the kernel
\* fills
BufSizes == {0, HEADER_SIZE - 1, HEADER_SIZE, 2 * HEADER_SIZE, MaxBuf}

\* a step of a directory-entry call on File i
DentsStep(op, i, arg, reqs, kerr, ret, aux) ==
  /\ sys' = Call(op, i, arg, reqs, kerr, ret, aux)
  /\ UNCHANGED <<kvmVars, fdtab, files, futex_word, data, threads, alldents, wr>>

\* File::getdents(&self, buf): one getdents64 on the whole buffer; the
\* iterator is over the bytes the kernel says it filled, whatever they are
Getdents(i, buf_size) ==
  /\ files[i].st = "open"
  /\ \E raw \in RawResults({n \in BufSizes : n <= buf_size}), addr \in {0, 1} :
       \E filled \in Slices({addr}, IF raw >= 0 THEN raw ELSE 0) :
         LET res == IF buf_size > INT_MAX THEN Err(EINVAL) ELSE raw_result(raw)
             req == Sys("getdents64", files[i].fd, "", buf_size)
         IN /\ DentsStep("getdents", i, buf_size,
                         IF buf_size > INT_MAX THEN <<>> ELSE <<req>>,
                         {KernelErr(raw)} \ {0},
                         IF IsOk(res) THEN Ok(filled) ELSE res, <<>>)
            /\ dents' = IF IsOk(res) THEN [st |-> "iter", remain |-> filled]
                        ELSE NoDirEntries

\* DirEntries::next
DirEntriesNext(build) ==
  /\ dents.st = "iter"
  /\ LET r == dir_entry_from_buf(dents.remain, build)
     IN /\ DentsStep("dir_entries_next", 0, dents.remain, <<>>, {}, r.ret, r.reads)
        /\ dents' = [st |-> IF r.ret[1] = "Panic" THEN "panicked" ELSE "iter",
                     remain |-> r.remain]

\* a directory opened and read with getdents
NextDents ==
  \/ FileOpen(1)
  \/ \E buf_size \in BufSizes : dents.st = "none" /\ Getdents(1, buf_size)
  \/ \E build \in Builds : DirEntriesNext(build)

SpecDents == Init /\ [][NextDents]_vars

\* ------------------------------------- linux-io: AllDirEntries, getdents_all
\* entries of the directories read
MaxDir == 3

\* kernel: the record of a directory entry, its length a multiple of eight and
\* its name ended by a zero byte inside the record
KernelRecord(ino, reclen) == Hdr(reclen, 0, reclen - 4, ino)

\* the directories: up to MaxDir entries with short and long names, the k-th
\* with inode number k
Directories ==
  UNION {{[k \in 1..n |-> KernelRecord(k, lens[k])] : lens \in [1..n -> {24, 32}]} :
         n \in 0..MaxDir}

\* the bytes of the first n records from position pos on
RECURSIVE RecordBytes(_, _, _)
RecordBytes(dir, pos, n) ==
  IF n = 0 THEN 0 ELSE d_reclen(dir[pos]) + RecordBytes(dir, pos + 1, n - 1)

\* kernel, getdents64 at read position pos into a buffer of buf_len bytes:
\* zero at the end of the directory; EINVAL when the next record does not
\* fit; otherwise some whole records that fit together, at least one; or
\* another error.  raw: the value returned, n: the records written
KernelGetdents(dir, pos, buf_len) ==
  {[raw |-> 0 - e, n |-> 0] : e \in Errnos} \cup
  (IF pos > Len(dir) THEN {[raw |-> 0, n |-> 0]}
   ELSE IF d_reclen(dir[pos]) > buf_len THEN {[raw |-> 0 - EINVAL, n |-> 0]}
   ELSE {[raw |-> RecordBytes(dir, pos, n), n |-> n] :
           n \in {m \in 1..(Len(dir) - pos + 1) : RecordBytes(dir, pos, m) <= buf_len}})

\* the transform the caller gives: what it keeps of an entry
Transform(entry) == <<entry.ino, entry.name_len>>

\* a try_read_entry that reports the whole slice as used when it finds an entry
try_read_entry_whole(buf, build) ==
  IF buf.len = 0 THEN [entry |-> None, advance |-> 0]
  ELSE [entry |-> dir_entry_from_buf(buf, build).ret, advance |-> buf.len]

\* try_read_entry: the entry at the start of buf and the bytes to move on by
try_read_entry(buf, build) ==
  IF buf.len = 0 THEN [entry |-> None, advance |-> 0]
  ELSE LET r == dir_entry_from_buf(buf, build)
       IN IF r.ret[1] = "Some"
          THEN [entry |-> r.ret, advance |-> buf.len - r.remain.len]
          ELSE [entry |-> r.ret, advance |-> buf.len]

\* &self.buf[self.rng.start..self.rng.end]; the buffer starts at a multiple
\* of eight
BufSlice(start, end, hdrs) ==
  [addr |-> start % HeaderAlign, len |-> end - start, hdrs |-> hdrs]

\* the buffer lengths getdents_all is called with
AllBufSizes == {24, 28, 32, 56, MaxBuf}

AllDentsStep(op, i, arg, reqs, kerr, ret, aux) ==
  /\ sys' = Call(op, i, arg, reqs, kerr, ret, aux)
  /\ UNCHANGED <<kvmVars, fdtab, files, futex_word, data, threads, dents, wr>>

\* File::getdents_all(&self, buf, transform): AllDirEntries::new, no system
\* call; dir is the directory the file is open on
GetdentsAll(i, buf_size, dir) ==
  /\ files[i].st = "open"
  /\ alldents.st = "none"
  /\ alldents' = [NoAllDirEntries EXCEPT !.st = "iter", !.f = "Some",
                                         !.buf_len = buf_size, !.dir = dir]
  /\ AllDentsStep("getdents_all", i, buf_size, <<>>, {}, Ok(<<>>), <<>>)

\* after try_read_entry: the range moved on, the records left in it, and the
\* item yielded if there is one
AfterRead(a, read) ==
  [a EXCEPT !.rng.start = @ + read.advance,
            !.hdrs = IF read.entry[1] = "Some" /\ read.advance < a.rng.end - a.rng.start
                     THEN Tail(@) ELSE <<>>,
            !.out = IF read.entry[1] = "Some"
                    THEN Append(@, Transform(read.entry[2])) ELSE @]

\* maybe_entry.map(|entry| Ok((self.transform)(entry)))
Yielded(read) ==
  IF read.entry[1] = "Some" THEN Some(Ok(Transform(read.entry[2]))) ELSE read.entry

\* Iterator for AllDirEntries: next
AllDirEntriesNext(i, build) ==
  /\ files[i].st = "open"
  /\ alldents.st \in {"iter", "ended"}
  /\ IF alldents.f = "None"
     THEN /\ alldents' = [alldents EXCEPT !.st = "iter"]
          /\ AllDentsStep("all_next", i, <<>>, <<>>, {}, None, 0)
     ELSE LET a == alldents
              first == try_read_entry(BufSlice(a.rng.start, a.rng.end, a.hdrs), build)
              a1 == AfterRead(a, first)
          IN IF first.entry[1] = "Some"
             THEN /\ alldents' = [a1 EXCEPT !.st = "iter"]
                  /\ AllDentsStep("all_next", i, <<>>, <<>>, {}, Yielded(first), 0)
             ELSE \E k \in KernelGetdents(a.dir, a.pos, a.buf_len) :
                    LET result == raw_result(k.raw)
                        req == Sys("getdents64", files[i].fd, "", a.buf_len)
                        filled == [a1 EXCEPT !.rng = [start |-> 0, end |-> result[2]],
                                             !.hdrs = SubSeq(a.dir, a.pos, a.pos + k.n - 1),
                                             !.pos = a.pos + k.n]
                        second == try_read_entry(
                                    BufSlice(0, filled.rng.end, filled.hdrs), build)
                    IN IF IsOk(result)
                       THEN /\ alldents' = [AfterRead(filled, second) EXCEPT
                                              !.st = IF second.entry[1] = "Some"
                                                     THEN "iter" ELSE "ended"]
                            /\ AllDentsStep("all_next", i, <<>>, <<req>>, {},
                                            Yielded(second), k.raw)
                       ELSE /\ alldents' = [a1 EXCEPT !.f = "None", !.st = "iter"]
                            /\ AllDentsStep("all_next", i, <<>>, <<req>>,
                                            {KernelErr(k.raw)}, Some(result), k.raw)

\* a directory read to its end with getdents_all
NextDentsAll ==
  \/ FileOpen(1)
  \/ \E buf_size \in AllBufSizes, dir \in Directories : GetdentsAll(1, buf_size, dir)
  \/ \E build \in Builds : AllDirEntriesNext(1, build)

SpecDentsAll == Init /\ [][NextDentsAll]_vars

\* ------------------------------------- linux-io: core::fmt::Write for File
\* characters of the strings written
MaxStr == 3
\* the write calls of one write_str are counted modulo this
CallsMod == 4

\* the characters: 'A' (U+0041) and 'e' with acute accent (U+00E9)
Chars == {65, 233}
Strings == UNION {[1..n -> Chars] : n \in 0..MaxStr}

\* the UTF-8 encoding of a character below U+0800
Utf8(c) == IF c < 128 THEN <<c>> ELSE <<192 + (c \div 64), 128 + (c % 64)>>

\* s.as_bytes(): the bytes of the string's UTF-8 encoding
RECURSIVE as_bytes(_)
as_bytes(s) == IF s = <<>> THEN <<>> ELSE Utf8(Head(s)) \o as_bytes(Tail(s))

\* a loop that moves on by one byte more than the write accepted
BytesFromNext(bytes, n) == SubSeq(bytes, n + 2, Len(bytes))

\* &bytes[n..]
BytesFrom(bytes, n) == SubSeq(bytes, n + 1, Len(bytes))

WriteStep(op, i, arg, reqs, kerr, ret) ==
  /\ sys' = Call(op, i, arg, reqs, kerr, ret, <<>>)
  /\ UNCHANGED <<kvmVars, fdtab, files, futex_word, data, threads, dents, alldents>>

\* File::from_raw_fd(fd): a File over a descriptor the process already has,
\* here its standard output; no system call
FileFromRawFd(i, fd) ==
  /\ files[i].st = "none"
  /\ files' = [files EXCEPT ![i] = [st |-> "open", fd |-> fd, err |-> 0]]
  /\ sys' = Call("from_raw_fd", i, <<fd>>, <<>>, {}, Ok(0), <<>>)
  /\ UNCHANGED <<kvmVars, fdtab, futex_word, data, threads, iterVars>>

\* write_str(&mut self, s), entry: let mut bytes = s.as_bytes()
WriteStr(i, s) ==
  /\ files[i].st = "open"
  /\ wr.st = "none"
  /\ wr' = [NoWriteStr EXCEPT !.st = "writing", !.s = s, !.bytes = as_bytes(s)]
  /\ WriteStep("write_str", i, s, <<>>, {}, <<"Running", 0>>)

\* write_str, one turn of the loop: File::write(bytes) is one write of all
\* remaining bytes; the kernel accepts some of them, none, or fails
AfterWrite(res) ==
  IF IsOk(res)
  THEN [wr EXCEPT !.bytes = BytesFrom(@, res[2]),
                  !.written = @ \o SubSeq(wr.bytes, 1, res[2]),
                  !.calls = (@ + 1) % CallsMod]
  ELSE [wr EXCEPT !.st = "err", !.calls = (@ + 1) % CallsMod]

WriteStrWrite(i) ==
  /\ files[i].st = "open"
  /\ wr.st = "writing"
  /\ wr.bytes # <<>>
  /\ \E raw \in RawResults(0..Len(wr.bytes)) :
       LET res == raw_result(raw)
           req == Sys("write", files[i].fd, "", wr.bytes)
       IN /\ WriteStep("write_str_write", i, wr.bytes, <<req>>,
                       {KernelErr(raw)} \ {0}, res)
          /\ wr' = AfterWrite(res)

\* write_str, the end of the loop: bytes is empty, Ok(()) is returned
WriteStrReturn(i) ==
  /\ files[i].st = "open"
  /\ wr.st = "writing"
  /\ wr.bytes = <<>>
  /\ wr' = [wr EXCEPT !.st = "ok"]
  /\ WriteStep("write_str_return", i, <<>>, <<>>, {}, Ok(0))

NextWrite ==
  \/ FileFromRawFd(1, 1)
  \/ \E s \in Strings : WriteStr(1, s)
  \/ WriteStrWrite(1)
  \/ WriteStrReturn(1)

\* what a turn of the loop, or its end, does to the call itself
WriteStrTurn ==
  /\ wr.st = "writing"
  /\ IF wr.bytes = <<>> THEN wr' = [wr EXCEPT !.st = "ok"]
     ELSE \E raw \in RawResults(0..Len(wr.bytes)) : wr' = AfterWrite(raw_result(raw))

\* the thread inside write_str goes on running: a write that was issued
\* returns and the loop takes its next turn
SpecWrite ==
  /\ Init
  /\ [][NextWrite]_vars
  /\ WF_wr(WriteStrTurn)

\* ----------------------------------- linux-io: the futex Mutex, used for ever
\* threads[t].used bounds the calls of a thread that are followed; a thread
\* may go on to call lock any number of times, so the count starts again
CallAgain(t) ==
  /\ threads[t].pc = "idle"
  /\ threads[t].used = MaxRounds
  /\ threads' = [threads EXCEPT ![t].used = 0]
  /\ UNCHANGED <<futex_word, data>>
  /\ SyncStep("again", t, <<>>, Ok(0))

\* the steps of a thread that is inside lock(), or inside the drop of its
\* guard after the swap: they are taken when the thread is scheduled
Runs(t) ==
  \/ Spin(t)
  \/ CasRetry(t)
  \/ LoopSwap(t)
  \/ FutexWait(t)
  \/ FutexWake(t)

\* threads that lock and unlock for ever
NextSyncFair ==
  \/ \E t \in ThreadIds : MutexLock(t)
  \/ \E t \in ThreadIds : MutexTryLock(t)
  \/ \E t \in ThreadIds : Spin(t)
  \/ \E t \in ThreadIds : CasRetry(t)
  \/ \E t \in ThreadIds : LoopSwap(t)
  \/ \E t \in ThreadIds : FutexWait(t)
  \/ \E t \in ThreadIds : FutexInterrupted(t)
  \/ \E t \in ThreadIds : GuardDrop(t)
  \/ \E t \in ThreadIds : FutexWake(t)
  \/ \E t \in ThreadIds : CallAgain(t)

\* fair scheduling: a thread that can take a step of lock() or of the wake
\* takes it; and every holder drops its guard
SpecSyncFair ==
  /\ Init
  /\ [][NextSyncFair]_vars
  /\ \A t \in ThreadIds : WF_vars(Runs(t))
  /\ \A t \in ThreadIds : WF_vars(GuardDrop(t))

\* ================================================================== claims
RunnerStates == {"ready", "running", "exited"}
Mmaps(reqs) == SelectSeq(reqs, LAMBDA q : q[1] = "mmap")
Munmaps(reqs) == SelectSeq(reqs, LAMBDA q : q[1] = "munmap")
Ioctls(reqs) == SelectSeq(reqs, LAMBDA q : q[1] = "ioctl")

\* what to_runner does for a size limit: it fails without any mmap exactly
\* when the size query failed or reported less than limit, and otherwise it
\* maps the reported number of bytes of the vCPU descriptor, read-write and
\* shared, at offset 0
ToRunnerRefusesBelow(limit) ==
  sys.op = "to_runner" =>
    LET raw == sys.aux
        refused == KernelErr(raw) # 0 \/ raw < limit
    IN /\ (IsErr(sys.ret) /\ Mmaps(sys.reqs) = <<>>) <=> refused
       /\ ~refused =>
            Mmaps(sys.reqs) =
              <<Sys("mmap", sys.arg, "",
                    [addr |-> 0, length |-> raw, prot |-> PROT_READ_WRITE,
                     flags |-> MAP_SHARED, offset |-> 0])>>

\* C1 as stated: to_runner fails without an mmap exactly when the reported
\* size is smaller than the fixed header of the control page (or the query
\* fails), and otherwise maps the reported number of bytes.
C1_RefusesBelowHeader == ToRunnerRefusesBelow(KvmRunHeaderSize)

\* C1: to_runner returns an error and issues no mmap exactly when the size
\* reported by GET_VCPU_MMAP_SIZE is smaller than the whole kvm_run structure,
\* header and payload union (or the query fails); in every other case it maps
\* exactly the reported number of bytes, read-write and shared, at offset 0 of
\* the vCPU descriptor.
C1_RefusesBelowKvmRun == ToRunnerRefusesBelow(KvmRunSize)

\* a to_runner that was refused, without an mmap, for a size that covers the
\* header but not the whole structure
C1_Witness ==
  /\ sys.op = "to_runner"
  /\ sys.aux = KvmRunSize - 1
  /\ sys.ret = Err(ENOMEM)
  /\ Mmaps(sys.reqs) = <<>>

\* C2: the control page of a runner is unmapped exactly once, by its drop and
\* not before: while the runner lives no munmap has been made for it and its
\* mapping is in place, after the drop one munmap has been made, and that
\* munmap has the pointer and the length that to_runner got from mmap.
C2_UnmappedOnceAtDrop ==
  /\ \A c \in CpuIds :
       /\ cpus[c].st \in RunnerStates =>
            /\ cpus[c].unmaps = 0
            /\ Mapping(cpus[c].mapped[1], cpus[c].mapped[2], <<"vcpu", c>>) \in maps
       /\ cpus[c].st = "closed" => cpus[c].unmaps = 1
       /\ cpus[c].st \notin RunnerStates \cup {"closed"} => cpus[c].unmaps = 0
  /\ sys.op = "drop_runner" =>
       Munmaps(sys.reqs) = <<Sys("munmap", -1, "", sys.aux)>>

\* a runner over a mapping longer than kvm_run has been dropped and unmapped
C2_Witness ==
  /\ sys.op = "drop_runner"
  /\ IsOk(sys.ret)
  /\ sys.aux[2] > KvmRunSize
  /\ cpus[sys.obj].st = "closed"
  /\ \A m \in maps : m.obj # <<"vcpu", sys.obj>>

\* C3: no RUN request is issued on a vCPU of a VM, and no request on the VM
\* itself, once a MemoryRegion that was registered in one of the VM's slots
\* has been dropped: after every such request all regions registered in the
\* VM are still alive.
C3_RegionOutlivesUse ==
  /\ sys.op = "run_raw" =>
       \A r \in vms[cpus[sys.obj].vm].registered : regions[r].st = "live"
  /\ sys.op \in {"create_vcpu", "set_guest_memory_region", "vm_check_extension"} =>
       \A r \in vms[sys.obj].registered : regions[r].st = "live"

\* a region registered in a VM has been unmapped while the VM is still open:
\* the runner of the VM was dropped before, and the VM only waits for its drop
C3_Witness ==
  \E v \in VmIds, r \in RegIds, c \in CpuIds :
    /\ r \in vms[v].registered
    /\ regions[r].st = "dropped"
    /\ ~regions[r].unmapFailed
    /\ vms[v].st = "retired"
    /\ cpus[c].vm = v
    /\ cpus[c].st = "closed"

C5_FailedUnmapAborts ==
  /\ \A r \in RegIds : regions[r].unmapFailed => proc = "aborted"
  /\ \A c \in CpuIds : cpus[c].unmapFailed => proc = "aborted"

\* C5: whenever the munmap of the drop of a MemoryRegion or of a
\* VirtualCpuRunner has failed, the drop has panicked, so the failure is not
\* swallowed; the process is aborted only by such a panic.
C5_FailedUnmapPanics ==
  /\ \A r \in RegIds : regions[r].unmapFailed => regions[r].panicked
  /\ \A c \in CpuIds : cpus[c].unmapFailed => cpus[c].panicked
  /\ proc = "aborted" =>
       \/ \E r \in RegIds : regions[r].unmapFailed
       \/ \E c \in CpuIds : cpus[c].unmapFailed

\* the munmap of a region's drop failed, the panic unwound, and the program
\* has gone on to another call with the region still mapped
C5_Witness ==
  \E r \in RegIds :
    /\ regions[r].unmapFailed
    /\ regions[r].panicked
    /\ proc = "running"
    /\ sys.op # "drop_region"
    /\ \E m \in maps : m.obj = <<"anon", r>>

RunnerSteps ==
  {<<"ready", "running">>, <<"running", "exited">>, <<"exited", "ready">>,
   <<"exited", "running">>, <<"ready", "closed">>, <<"exited", "closed">>}
RunnerOps == {"run_raw", "get_regs", "set_regs", "with_raw_run_state", "drop_runner"}

\* C6: a runner moves only Ready -> Running -> Exited -> Ready or Running;
\* after every return of run, successful or not, it is Exited and run can be
\* called again; it becomes Closed only by its drop, and no run, register or
\* control-page access is made on it once it is Closed.
C6_RunnerLifecycle ==
  /\ [](\A c \in CpuIds :
          (sys.op = "run_raw" /\ sys.obj = c /\ sys.ret[1] # "Blocked") =>
             (cpus[c].st = "exited" /\ ENABLED RunBegin(c)))
  /\ [][\A c \in CpuIds :
          /\ (cpus[c].st \in RunnerStates /\ cpus'[c].st # cpus[c].st) =>
               /\ <<cpus[c].st, cpus'[c].st>> \in RunnerSteps
               /\ cpus'[c].st = "closed" => (sys'.op = "drop_runner" /\ sys'.obj = c)
          /\ cpus[c].st = "closed" =>
               /\ cpus'[c].st = "closed"
               /\ ~(sys'.obj = c /\ sys'.op \in RunnerOps)]_<<sys.op, vars>>

\* run has been called again after a run that failed
C6_Witness ==
  \E c \in CpuIds : cpus[c].st = "running" /\ cpus[c].last = "err"

FallibleOps ==
  {"open", "get_api_version", "check_extension", "create_vm", "get_vcpu_mmap_size",
   "create_vcpu", "set_guest_memory_region", "get_regs", "set_regs", "to_runner",
   "run_raw", "memory_region_new"}
NoRepeat(reqs) ==
  \A i, j \in 1..Len(reqs) :
    (i # j /\ reqs[i][1] = reqs[j][1] /\ reqs[i][3] = reqs[j][3]) => reqs[i][2] # reqs[j][2]
\* to_runner's own error: ENOMEM for a size that the kernel reported without
\* any error
OwnError ==
  /\ sys.op = "to_runner"
  /\ sys.ret = Err(ENOMEM)
  /\ sys.kerr = {}
  /\ sys.aux >= 0
  /\ sys.aux < KvmRunSize

C8_OnlyMatchingVariant ==
  sys.op = "with_raw_run_state" =>
    /\ sys.aux.last = "ok"
    /\ sys.arg = VariantOf(sys.aux.exit_reason)

\* C8: after a successful run the payload the kernel filled in is the variant
\* of exit_reason, and with_raw_run_state hands the closure the control page
\* of its own vCPU as it is at that moment, in every state of the runner
\* between to_runner and the drop; which field of the union is read is the
\* closure's choice.
C8_RawPageExposed ==
  /\ \A c \in CpuIds :
       cpus[c].last = "ok" => cpus[c].page.tag = VariantOf(cpus[c].page.exit_reason)
  /\ sys.op = "with_raw_run_state" =>
       /\ cpus[sys.obj].st \in {"ready", "exited"}
       /\ cpus[sys.obj].page.exit_reason = sys.aux.exit_reason
       /\ cpus[sys.obj].page.tag = sys.aux.tag
       /\ cpus[sys.obj].last = sys.aux.last

\* after a successful run the closure has read a variant that exit_reason
\* does not select
C8_Witness ==
  /\ sys.op = "with_raw_run_state"
  /\ sys.aux.last = "ok"
  /\ sys.arg # VariantOf(sys.aux.exit_reason)

\* C9: every create_vcpu passes its cpu_id unchanged in one KVM_CREATE_VCPU
\* request on the VM, whatever ids were created before; for an id that
\* create_vcpu has already succeeded for on this VM it returns the kernel's
\* error and no new VirtualCpu or descriptor comes into being.
C9_DuplicateVcpuRejected ==
  [][sys'.op = "create_vcpu" =>
       /\ sys'.reqs = <<Sys("ioctl", vms[sys'.obj].fd, "KVM_CREATE_VCPU", sys'.arg)>>
       /\ sys'.arg \in vms[sys'.obj].made =>
            /\ IsErr(sys'.ret)
            /\ cpus' = cpus
            /\ fdtab' = fdtab
       /\ IsErr(sys'.ret) => sys'.ret[2] \in sys'.kerr]_<<sys.op, vars>>

\* the kernel has rejected a second create_vcpu of an id while another id
\* could still be created
C9_Witness ==
  /\ sys.op = "create_vcpu"
  /\ IsErr(sys.ret)
  /\ sys.ret[2] \in DuplicateErrnos
  /\ sys.arg \in vms[sys.obj].made
  /\ CpusMade < MaxCpus

\* C10: the drop of a MemoryRegion issues one munmap, of the region's
\* address and length, and no other request, and leaves the slot table of
\* every VM as it was.
C10_DropRegionKeepsSlots ==
  [][sys'.op = "drop_region" =>
       /\ sys'.reqs = <<Sys("munmap", -1, "",
                            <<regions[sys'.obj].addr, regions[sys'.obj].length>>)>>
       /\ \A v \in VmIds : vms'[v].slots = vms[v].slots]_<<sys.op, vars>>

\* a region has been unmapped and a slot of an open VM still points at it
C10_Witness ==
  /\ sys.op = "drop_region"
  /\ IsOk(sys.ret)
  /\ \E v \in VmIds : \E d \in vms[v].slots :
       /\ vms[v].st = "retired"
       /\ d.userspace_addr = sys.reqs[1][4][1]
       /\ d.memory_size = sys.reqs[1][4][2]

\* C11: every set_guest_memory_region sends one KVM_SET_USER_MEMORY_REGION
\* request on the VM's descriptor, whose descriptor holds the caller's slot,
\* flags and guest_phys_addr as given, the region's length as memory_size and
\* the region's address as userspace_addr; an error it returns is the
\* kernel's, never the result of a check of its own; no MemoryRegion changes.
C11_DescriptorAsGiven ==
  [][sys'.op = "set_guest_memory_region" =>
       /\ sys'.reqs =
            <<Sys("ioctl", vms[sys'.obj].fd, "KVM_SET_USER_MEMORY_REGION",
                  [slot |-> sys'.arg[1], flags |-> sys'.arg[2],
                   guest_phys_addr |-> sys'.arg[3],
                   memory_size |-> regions[sys'.arg[4]].length,
                   userspace_addr |-> regions[sys'.arg[4]].addr])>>
       /\ IsErr(sys'.ret) => sys'.ret[2] \in sys'.kerr
       /\ regions' = regions]_<<sys.op, vars>>

\* a request with an unknown flag bit and a guest address inside a page has
\* reached the kernel
C11_Witness ==
  /\ sys.op = "set_guest_memory_region"
  /\ sys.arg[2] \notin {0, 1, KVM_MEM_READONLY, 1 + KVM_MEM_READONLY}
  /\ sys.arg[3] % 4096 # 0
  /\ Len(sys.reqs) = 1
  /\ sys.reqs[1][4].flags = sys.arg[2]
  /\ sys.reqs[1][4].guest_phys_addr = sys.arg[3]

\* the bits lo .. lo + width - 1 of a word, as a word
BitField(w, lo, width) == {i - lo : i \in w \cap (lo..(lo + width - 1))}
FieldTypes(fields) == [i \in 1..Len(fields) |-> <<fields[i].name, fields[i].type.size>>]
DescriptorFields ==
  <<<<"slot", 4>>, <<"flags", 4>>, <<"guest_phys_addr", 8>>, <<"memory_size", 8>>,
    <<"userspace_addr", 8>>>>
DescriptorIs(bytes) ==
  /\ FieldTypes(kvm_userspace_memory_region) = DescriptorFields
  /\ (sys.op = "size_of" /\ sys.arg = "kvm_userspace_memory_region") => sys.ret = Ok(bytes)
  /\ (sys.op = "request" /\ sys.arg = "KVM_SET_USER_MEMORY_REGION") =>
       BitField(sys.ret[2], 16, 14) = ToWord(bytes)

\* C12 as stated: the descriptor is slot: u32, flags: u32, guest_phys_addr:
\* u64, memory_size: u64, userspace_addr: u64, its size is 24 bytes, and the
\* size field of the KVM_SET_USER_MEMORY_REGION code is 24.
C12_Descriptor24Bytes == DescriptorIs(24)

\* C12: the descriptor is slot: u32, flags: u32, guest_phys_addr: u64,
\* memory_size: u64, userspace_addr: u64, its size is 32 bytes, and the size
\* field of the KVM_SET_USER_MEMORY_REGION code is 32.
C12_Descriptor32Bytes == DescriptorIs(32)

\* the request code of KVM_SET_USER_MEMORY_REGION has been computed
C12_Witness ==
  /\ sys.op = "request"
  /\ sys.arg = "KVM_SET_USER_MEMORY_REGION"
  /\ BitField(sys.ret[2], 0, 8) = ToWord(70)

\* the device marker of what a descriptor number is open on
MarkerOf == [kvm |-> "KvmSystem", vm |-> "KvmVm", vcpu |-> "KvmVcpu", free |-> "closed"]

\* C13: every ioctl request of a call goes to a descriptor that is open on
\* the device of the request's marker type (KvmSystem, KvmVm, KvmVcpu); the
\* descriptor a successful create_vm returns is open on a VM and is held by a
\* VirtualMachine, the one a successful create_vcpu returns is open on a
\* vCPU and is held by a VirtualCpu.
C13_RequestsMatchDevice ==
  [][/\ \A i \in 1..Len(sys'.reqs) :
          sys'.reqs[i][1] = "ioctl" =>
            Requests[sys'.reqs[i][3]].device = MarkerOf[fdtab[sys'.reqs[i][2]]]
     /\ (sys'.op = "create_vm" /\ IsOk(sys'.ret)) =>
          /\ fdtab'[sys'.ret[2]] = "vm"
          /\ \E v \in VmIds : vms[v].st = "none" /\ vms'[v].st = "live"
                              /\ vms'[v].fd = sys'.ret[2]
     /\ (sys'.op = "create_vcpu" /\ IsOk(sys'.ret)) =>
          /\ fdtab'[sys'.ret[2]] = "vcpu"
          /\ \E c \in CpuIds : cpus[c].st = "none" /\ cpus'[c].st = "cpu"
                               /\ cpus'[c].fd = sys'.ret[2]]_<<sys.op, vars>>

\* a vCPU has been created by a request on a VM handle, and has been asked
\* to run by a request on its own handle
C13_Witness ==
  /\ sys.op = "run_raw"
  /\ fdtab[sys.reqs[1][2]] = "vcpu"
  /\ \E v \in VmIds : fdtab[vms[v].fd] = "vm" /\ cpus[sys.obj].vm = v
  /\ fdtab[kvm.fd] = "kvm"

\* calls that are left once the Kvm is gone: the implicit drops of
\* VirtualMachine and VirtualCpu values, which have no Drop impl of their own
\* and only close their descriptor, and the calls of MemoryRegion
AfterKvmOps == {"drop_vm", "drop_cpu", "memory_region_new", "drop_region"}

DirNone == 0
DirWrite == 1
DirRead == 2
DeclaredFields ==
  [KVM_GET_API_VERSION |-> <<DirNone, 0>>,
   KVM_CREATE_VM |-> <<DirNone, 0>>,
   KVM_GET_VCPU_MMAP_SIZE |-> <<DirNone, 0>>,
   KVM_RUN |-> <<DirNone, 0>>,
   KVM_CHECK_EXTENSION |-> <<DirWrite, c_int.size>>,
   KVM_SET_USER_MEMORY_REGION |-> <<DirWrite, size_of(kvm_userspace_memory_region)>>,
   KVM_SET_REGS |-> <<DirWrite, size_of(kvm_regs)>>,
   KVM_GET_REGS |-> <<DirRead, size_of(kvm_regs)>>]

\* C15: a request code holds its number in bits 0-7, its type in bits 8-15,
\* its size in bits 16-29 and its direction in bits 30-31, each recoverable
\* from the code for nr < 256, typ < 256, size < 2^14 and dir < 4; every KVM
\* code has type 0xAE, and the listed requests carry the listed direction and
\* payload size.
C15_CodeFields ==
  /\ sys.op = "_IOC" =>
       LET w == sys.ret[2]
           a == sys.arg
       IN /\ w \subseteq 0..31
          /\ BitField(w, 0, 8) = ToWord(a[3])
          /\ BitField(w, 8, 8) = ToWord(a[2])
          /\ BitField(w, 16, 14) = ToWord(a[4])
          /\ BitField(w, 30, 2) = ToWord(a[1])
  /\ sys.op = "request" =>
       LET w == sys.ret[2]
       IN /\ BitField(w, 8, 8) = ToWord(KVMIO)
          /\ w \subseteq 0..31
          /\ sys.arg \in DOMAIN DeclaredFields =>
               /\ BitField(w, 30, 2) = ToWord(DeclaredFields[sys.arg][1])
               /\ BitField(w, 16, 14) = ToWord(DeclaredFields[sys.arg][2])

\* a code was built from the largest value of every field, so that each field
\* has a full neighbour on both sides
C15_Witness ==
  /\ sys.op = "_IOC"
  /\ sys.arg = <<3, 255, 255, 16383>>
  /\ sys.ret[2] = 0..31

\* the two fields of the control page that the host writes
HostHeader(page) == <<page.request_interrupt_window, page.immediate_exit>>
\* a vCPU whose control page exists: before, while and after it has a runner
HasPage(cpu) == cpu.st \in {"cpu", "retired", "ready", "running", "exited"}

\* C16: immediate_exit and request_interrupt_window of a control page change
\* only in a call of with_raw_run_state on its runner, by the store of the
\* caller's closure; to_runner, run_raw, get_regs, set_regs, modify_regs and
\* the drops leave them alone, and they never change while a run is blocked in
\* the kernel.
C16_HeaderOnlyByClosure ==
  [][\A c \in CpuIds :
       (HasPage(cpus[c]) /\ HasPage(cpus'[c])
          /\ HostHeader(cpus'[c].page) # HostHeader(cpus[c].page)) =>
         /\ sys'.op = "with_raw_run_state"
         /\ sys'.obj = c
         /\ sys'.aux.write # NoWrite
         /\ cpus'[c].page = WritePage(cpus[c].page, sys'.aux.write)
         /\ cpus[c].st # "running"]_<<sys.op, vars>>

\* a closure has asked for an immediate exit and for an interrupt window, and
\* a run has since returned with both requests still on the page
C16_Witness ==
  \E c \in CpuIds :
    /\ cpus[c].st = "exited"
    /\ sys.op = "run_raw"
    /\ HostHeader(cpus[c].page) = <<1, 1>>

\* the calls whose receiver exists can be made: the library has no condition
\* of its own on them
CallsAllowed ==
  /\ kvm.st = "open" => ENABLED CreateVm
  /\ \A v \in VmIds : vms[v].st = "live" =>
       /\ \A id \in CpuNums : ENABLED CreateVcpu(v, id)
       /\ \A r \in RegIds :
            (/\ regions[r].st = "live"
             /\ v \notin Outlives(r)
             /\ \A w \in Outlives(r) \cup {v} : ~HasRunner(w)) =>
              ENABLED SetGuestMemoryRegion(v, 0, 0, 0, r)
  /\ \A c \in CpuIds :
       /\ cpus[c].st = "cpu" => ENABLED ToRunner(c)
       /\ cpus[c].st \in {"ready", "exited"} => ENABLED RunBegin(c)

\* C17: get_api_version is one KVM_GET_API_VERSION request whose successful
\* result is returned as the kernel gave it, 12 or not; no other call asks for
\* the version; and in every state of a running process, whatever the last
\* get_api_version returned and whether or not there was one, create_vm,
\* create_vcpu, set_guest_memory_region, to_runner and run can be called on the
\* values that exist.
C17_VersionNotEnforced ==
  /\ sys.op = "get_api_version" =>
       /\ sys.reqs = <<Sys("ioctl", kvm.fd, "KVM_GET_API_VERSION", <<>>)>>
       /\ sys.ret = IF sys.aux >= 0 THEN Ok(sys.aux) ELSE Err(-sys.aux)
  /\ sys.op # "get_api_version" =>
       \A i \in 1..Len(sys.reqs) : sys.reqs[i][3] # "KVM_GET_API_VERSION"
  /\ proc = "running" => CallsAllowed

\* the kernel has just reported version 11 to a program that holds a VM, a
\* MemoryRegion and a vCPU
C17_Witness ==
  /\ sys.op = "get_api_version"
  /\ sys.ret = Ok(11)
  /\ proc = "running"
  /\ \E v \in VmIds, c \in CpuIds, r \in RegIds :
       /\ vms[v].st = "live"
       /\ regions[r].st = "live"
       /\ cpus[c].st \in {"cpu", "ready", "exited"}

\* the descriptors that are open
OpenFds(tab) == {f \in Fds : tab[f] # "free"}

\* C18: Kvm::open issues exactly one openat of /dev/kvm, with access mode
\* read-write and the close-on-exec flag; when the kernel refuses, the call
\* returns the kernel's error number, the process keeps running, no Kvm
\* exists and the set of open descriptors is what it was; when the kernel
\* answers with a descriptor, that descriptor is the new Kvm's.
C18_OpenErrorIsValue ==
  [][sys'.op = "open" =>
       /\ Len(sys'.reqs) = 1
       /\ sys'.reqs[1][1] = "openat"
       /\ sys'.reqs[1][2] = "/dev/kvm"
       /\ sys'.reqs[1][4].flags \cap ToWord(O_ACCMODE) = ToWord(O_RDWR)
       /\ ToWord(O_CLOEXEC) \subseteq sys'.reqs[1][4].flags
       /\ proc' = "running"
       /\ IsErr(sys'.ret) =>
            /\ sys'.kerr = {sys'.ret[2]}
            /\ kvm'.st = "none"
            /\ OpenFds(fdtab') = OpenFds(fdtab)
       /\ IsOk(sys'.ret) =>
            /\ kvm' = [st |-> "open", fd |-> sys'.ret[2]]
            /\ OpenFds(fdtab') = OpenFds(fdtab) \cup {sys'.ret[2]}
            /\ fdtab'[sys'.ret[2]] = "kvm"]_<<sys.op, vars>>

\* the device node could not be opened: the error is the result, there is no
\* Kvm and no descriptor is open
C18_Witness ==
  /\ sys.op = "open"
  /\ IsErr(sys.ret)
  /\ kvm.st = "none"
  /\ OpenFds(fdtab) = {}
  /\ proc = "running"

RECURSIVE SumDone(_)
SumDone(T) ==
  IF T = {} THEN 0
  ELSE LET t == CHOOSE u \in T : TRUE IN threads[t].done + SumDone(T \ {t})

\* C19: at most one thread owns a MutexGuard at any time, and the counter is
\* the number of additions completed under the lock: none is lost.  Two
\* threads that each locked and added 1 leave 2.
C19_OneGuard ==
  /\ Cardinality(Guards) <= 1
  /\ data = SumDone(ThreadIds)
  /\ Guards # {} => futex_word # UNLOCKED

\* two threads have each added 1 and dropped their guard, the second drop
\* found the word CONTENDED and has just woken a waiter: the counter is 2
C19_Witness ==
  /\ sys.op = "futex_wake"
  /\ Guards = {}
  /\ data = 2
  /\ \E t, u \in ThreadIds :
       t # u /\ threads[t].done = 1 /\ threads[u].done = 1

Closes(reqs) == SelectSeq(reqs, LAMBDA q : q[1] = "close")

\* C20: once the close made by File::close has failed, this File issues no
\* further close on its descriptor number, so that no File that is open ever
\* loses its descriptor to it; and once the close has succeeded, the File
\* issues no close at all.
C20_FailedCloseLeaks ==
  [][/\ \A i \in FileIds :
          (files[i].st \in {"failing", "closed"} /\ sys'.obj = i
             /\ sys'.op \in {"file_close", "file_drop"}) =>
            Closes(sys'.reqs) = <<>>
     /\ \A j \in FileIds :
          files'[j].st = "open" => fdtab'[files'[j].fd] = "file"]_<<sys.op, vars>>

\* the requests of a modify_regs call on descriptor fd that read seen and
\* wrote new, without a request made by the closure
GetThenSet(fd, new) ==
  <<Sys("ioctl", fd, "KVM_GET_REGS", <<>>), Sys("ioctl", fd, "KVM_SET_REGS", new)>>

\* C23: modify_regs(f) with a closure that makes no request of its own issues
\* GET_REGS, calls f once on the register set read, issues SET_REGS with that
\* whole set as f left it, and returns f's result.  When GET_REGS fails f is
\* not called, no SET_REGS is issued and the registers stay; when SET_REGS
\* fails its error is returned instead of f's result and the registers stay.
\* A register f does not change has the value it had.
C23_ModifyRegs ==
  [][(sys'.op = "modify_regs" /\ sys'.arg \in RegClosures) =>
       LET c == sys'.obj
           fd == cpus[c].fd
           old == cpus[c].regs
       IN IF Len(sys'.reqs) = 1
          THEN /\ sys'.reqs = <<Sys("ioctl", fd, "KVM_GET_REGS", <<>>)>>
               /\ IsErr(sys'.ret)
               /\ sys'.ret[2] \in sys'.kerr
               /\ sys'.aux.calls = 0
               /\ cpus'[c].regs = old
          ELSE /\ sys'.aux.calls = 1
               /\ sys'.aux.seen = old
               /\ sys'.reqs = GetThenSet(fd, ApplyReg(sys'.arg, old))
               /\ ApplyReg(sys'.arg, old).rax = old.rax
               /\ sys'.arg = "keep" => ApplyReg(sys'.arg, old) = old
               /\ IF IsOk(sys'.ret)
                  THEN /\ sys'.ret = Ok(ClosureResult(sys'.arg, old))
                       /\ cpus'[c].regs = ApplyReg(sys'.arg, old)
                  ELSE /\ sys'.ret[2] \in sys'.kerr
                       /\ cpus'[c].regs = old]_<<sys.op, vars>>

\* a modify_regs has changed rip of a register set whose rax is 1, and rax is
\* still 1
C23_Witness ==
  /\ sys.op = "modify_regs"
  /\ sys.arg = "flip"
  /\ IsOk(sys.ret)
  /\ sys.aux.seen = Regs(1, 0)
  /\ cpus[sys.obj].regs = Regs(1, 1)

\* C24: when the closure of modify_regs has written the registers of the same
\* vCPU through set_regs, the write-back that follows replaces every register
\* by the copy read before, as the closure edited it: the closure's set_regs
\* is lost, also in a register the closure did not edit.
C24_WriteBackOverwrites ==
  [][(sys'.op = "modify_regs" /\ CallsSetRegs(sys'.arg) /\ IsOk(sys'.ret)) =>
       LET c == sys'.obj
           old == cpus[c].regs
       IN /\ Len(sys'.reqs) = 3
          /\ sys'.reqs[2] = Sys("ioctl", cpus[c].fd, "KVM_SET_REGS", ClosureSet)
          /\ sys'.reqs[3] = Sys("ioctl", cpus[c].fd, "KVM_SET_REGS", ApplyReg(sys'.arg, old))
          /\ cpus'[c].regs = ApplyReg(sys'.arg, old)
          /\ cpus'[c].regs.rax = old.rax]_<<sys.op, vars>>

\* the closure's set_regs succeeded and made rax 1, the closure did not edit
\* its copy, and after the write-back rax is 0 again
C24_Witness ==
  /\ sys.op = "modify_regs"
  /\ sys.arg = "keep_set"
  /\ IsOk(sys.ret)
  /\ sys.aux.current = ClosureSet
  /\ sys.aux.seen = Regs(0, 0)
  /\ cpus[sys.obj].regs = Regs(0, 0)

\* C27: the drop of a runner issues the munmap of its control page first and
\* the close of its vCPU descriptor after it, and nothing else; the
\* descriptor is open on the vCPU for as long as the runner lives; the Kvm's
\* descriptor is not touched.
C27_UnmapThenClose ==
  [][/\ sys'.op = "drop_runner" =>
          LET c == sys'.obj
          IN /\ cpus[c].st \in {"ready", "exited"}
             /\ fdtab[cpus[c].fd] = "vcpu"
             /\ sys'.reqs[1] = Sys("munmap", -1, "", <<cpus[c].run, cpus[c].run_len>>)
             /\ Len(sys'.reqs) <= 2
             /\ Len(sys'.reqs) = 2 => sys'.reqs[2] = SysClose(cpus[c].fd)
             /\ proc' = "running" => Len(sys'.reqs) = 2
             /\ cpus[c].fd # kvm.fd
             /\ fdtab'[kvm.fd] = fdtab[kvm.fd]
     /\ \A c \in CpuIds :
          cpus'[c].st \in RunnerStates => fdtab'[cpus'[c].fd] = "vcpu"]_<<sys.op, vars>>

\* a runner has been dropped while its Kvm is open: the page is unmapped, the
\* vCPU descriptor is free and the Kvm's descriptor is still open
C27_Witness ==
  /\ sys.op = "drop_runner"
  /\ Len(sys.reqs) = 2
  /\ IsOk(sys.ret)
  /\ kvm.st = "open"
  /\ fdtab[kvm.fd] = "kvm"
  /\ fdtab[sys.reqs[2][2]] = "free"

\* C28: while the KVM_RUN of a runner is in progress, no other call on that
\* runner begins or acts: the only step on it is the return of that KVM_RUN,
\* and nothing else changes the runner's state, registers or control page.
C28_RunnerOps ==
  {"get_regs", "set_regs", "modify_regs", "with_raw_run_state", "run_raw",
   "drop_runner", "to_runner", "drop_cpu"}

C28_RunExcludesAccess ==
  [][\A c \in CpuIds :
       cpus[c].st = "running" =>
         \/ /\ cpus'[c] = cpus[c]
            /\ ~(sys'.obj = c /\ sys'.op \in C28_RunnerOps)
         \/ /\ sys'.op = "run_raw"
            /\ sys'.obj = c
            /\ sys'.ret[1] # "Blocked"
            /\ cpus'[c].st \in {"ready", "exited"}]_<<sys.op, vars>>

\* a KVM_RUN is in progress on a runner that has run and been read before
C28_Witness ==
  /\ sys.op = "run_raw"
  /\ sys.ret[1] = "Blocked"
  /\ cpus[sys.obj].st = "running"
  /\ cpus[sys.obj].last = "ok"

\* the wrappers that still hold a descriptor or a mapping
C26_Holders ==
  (IF kvm.st = "open" THEN {<<"kvm", 0>>} ELSE {}) \cup
  {<<"vm", v>> : v \in {w \in VmIds : vms[w].st \in {"live", "retired"}}} \cup
  {<<"vcpu", c>> : c \in {d \in CpuIds : cpus[d].st \in {"cpu", "retired"} \cup RunnerStates}} \cup
  {<<"anon", r>> : r \in {q \in RegIds : regions[q].st = "live"}}

\* no wrapper is left: every descriptor is closed, and the mappings that are
\* left are those whose one munmap the kernel refused
C26_AllReleased ==
  (proc = "running" /\ C26_Holders = {}) =>
    /\ \A f \in Fds : fdtab[f] = "free"
    /\ \A m \in maps :
         \/ m.obj[1] = "vcpu" /\ cpus[m.obj[2]].unmapFailed
         \/ m.obj[1] = "anon" /\ regions[m.obj[2]].unmapFailed
    /\ \A c \in CpuIds : cpus[c].unmaps = IF cpus[c].st = "closed" THEN 1 ELSE 0
    /\ \A r \in RegIds : regions[r].unmaps = IF regions[r].st = "dropped" THEN 1 ELSE 0

\* C26: every close is the one close of a descriptor that is open and is held
\* by the wrapper that goes away in the step, and a descriptor becomes free
\* only by such a close; every munmap is the one munmap of a mapping that is
\* in place and belongs to the wrapper that goes away; a failed to_runner
\* closes the vCPU's descriptor and makes no mapping; a failed create_vm or
\* create_vcpu makes no wrapper and no close; open hands the descriptor it
\* got to the Kvm without closing it; and when no wrapper is left every
\* descriptor is closed and every mapping has had its one munmap.
C26_ReleasedExactlyOnce ==
  [][LET closes == SelectSeq(sys'.reqs, LAMBDA q : q[1] = "close")
         unmaps == SelectSeq(sys'.reqs, LAMBDA q : q[1] = "munmap")
     IN /\ Len(closes) <= 1
        /\ Len(unmaps) <= 1
        /\ \A i \in 1..Len(closes) :
             /\ fdtab[closes[i][2]] # "free"
             /\ fdtab'[closes[i][2]] = "free"
             /\ \/ sys'.op = "drop_kvm" /\ kvm.st = "open" /\ kvm.fd = closes[i][2]
                                         /\ kvm'.st = "dropped"
                \/ sys'.op = "drop_vm" /\ vms[sys'.obj].fd = closes[i][2]
                                        /\ vms'[sys'.obj].st = "dropped"
                \/ sys'.op \in {"drop_cpu", "to_runner", "drop_runner"}
                     /\ cpus[sys'.obj].fd = closes[i][2]
                     /\ cpus'[sys'.obj].st \in {"dropped", "closed"}
        /\ \A f \in Fds :
             (fdtab[f] # "free" /\ fdtab'[f] = "free") =>
               \E i \in 1..Len(closes) : closes[i][2] = f
        /\ \A i \in 1..Len(unmaps) :
             \/ /\ sys'.op = "drop_runner"
                /\ Mapping(unmaps[i][4][1], unmaps[i][4][2], <<"vcpu", sys'.obj>>) \in maps
                /\ cpus'[sys'.obj].st = "closed"
             \/ /\ sys'.op = "drop_region"
                /\ Mapping(unmaps[i][4][1], unmaps[i][4][2], <<"anon", sys'.obj>>) \in maps
                /\ regions'[sys'.obj].st = "dropped"
        /\ \A m \in maps \ maps' :
             \E i \in 1..Len(unmaps) : unmaps[i][4] = <<m.addr, m.len>>
        /\ (sys'.op = "to_runner" /\ IsErr(sys'.ret)) =>
             /\ closes = <<SysClose(cpus[sys'.obj].fd)>>
             /\ sys'.reqs[Len(sys'.reqs)][1] = "close"
             /\ maps' = maps
        /\ (sys'.op = "to_runner" /\ IsOk(sys'.ret)) => closes = <<>>
        /\ (sys'.op = "create_vm" /\ IsErr(sys'.ret)) =>
             closes = <<>> /\ vms' = vms /\ fdtab' = fdtab
        /\ (sys'.op = "create_vcpu" /\ IsErr(sys'.ret)) =>
             closes = <<>> /\ cpus' = cpus /\ fdtab' = fdtab
        /\ sys'.op = "open" =>
             /\ Len(sys'.reqs) = 1
             /\ sys'.reqs[1][1] = "openat"
             /\ IsOk(sys'.ret) => kvm'.fd = sys'.ret[2] /\ fdtab'[kvm'.fd] = "kvm"
        /\ C26_AllReleased']_<<sys.op, vars>>

\* a device node, a VM, a vCPU whose to_runner failed, a runner and guest
\* memory have all been obtained and every wrapper is gone again
C26_Witness ==
  /\ proc = "running"
  /\ C26_Holders = {}
  /\ kvm.st = "dropped"
  /\ \E v \in VmIds : vms[v].st = "dropped"
  /\ \E c \in CpuIds : cpus[c].st \in {"dropped", "closed"}
  /\ \E r \in RegIds : regions[r].st = "dropped"
  /\ maps = {}
  /\ \A f \in Fds : fdtab[f] = "free"

\* a to_runner has failed after the mmap request, and the vCPU's descriptor is
\* closed
C26_WitnessFailed ==
  /\ sys.op = "to_runner"
  /\ IsErr(sys.ret)
  /\ Len(sys.reqs) = 3
  /\ fdtab[sys.arg] = "free"

\* the methods of PollResponse other than hung_up each test their own bit
C22_OwnBit ==
  /\ sys.op = "readable" => (sys.ret[2] <=> AndBit(sys.obj, POLLIN) # 0)
  /\ sys.op = "writable" => (sys.ret[2] <=> AndBit(sys.obj, POLLOUT) # 0)
  /\ sys.op = "error" => (sys.ret[2] <=> AndBit(sys.obj, POLLERR) # 0)
  /\ sys.op = "exception" => (sys.ret[2] <=> AndBit(sys.obj, POLLPRI) # 0)
  /\ sys.op = "invalid" => (sys.ret[2] <=> AndBit(sys.obj, POLLNVAL) # 0)

\* C22: hung_up() is true exactly when POLLHUP is set in revents, whatever
\* the error bit is.
C22_HungUpTestsPollhup ==
  sys.op = "hung_up" => (sys.ret[2] <=> AndBit(sys.obj, POLLHUP) # 0)

\* what hung_up() does test: the error bit
C22_HungUpTestsPollerr ==
  sys.op = "hung_up" => (sys.ret[2] <=> AndBit(sys.obj, POLLERR) # 0)

\* the record at the start of a slice is whole: the header fits and the
\* claimed length is at least the header's and at most the slice's
C30_Whole(buf) ==
  /\ buf.len >= HEADER_SIZE
  /\ d_reclen(Head(buf.hdrs)) >= HEADER_SIZE
  /\ d_reclen(Head(buf.hdrs)) <= buf.len

\* the name of a whole record has its zero byte inside the record
C30_Terminated(buf) ==
  /\ Head(buf.hdrs).nul # NoNul
  /\ Head(buf.hdrs).nul < d_reclen(Head(buf.hdrs))

\* C30, as stated: for every byte content every next() returns, an entry or
\* None, without panicking; it is None exactly at a record that is truncated
\* or whose claimed length is shorter than the header or longer than the
\* remaining bytes; an entry moves the remaining bytes on by its claimed
\* length; all reads are inside the buffer.
C30_EveryContent ==
  [][sys'.op = "dir_entries_next" =>
       LET buf == dents.remain
       IN /\ sys'.ret[1] \in {"Some", "None"}
          /\ sys'.ret[1] = "None" <=> ~C30_Whole(buf)
          /\ sys'.ret[1] = "None" => dents'.remain = buf
          /\ sys'.ret[1] = "Some" =>
               dents'.remain.len = buf.len - d_reclen(Head(buf.hdrs))
          /\ \A rg \in sys'.aux : 0 <= rg[1] /\ rg[1] <= rg[2] /\ rg[2] <= buf.len
    ]_<<sys.op, vars>>

\* C30, for what the code does: every next() reads inside the buffer only; on
\* a slice shorter than a header it returns None; on a longer slice at a
\* multiple of eight it returns None when the claimed length is shorter than
\* the header or longer than the slice, panics when the record is whole and
\* its name holds no zero byte, and otherwise yields the entry and moves on
\* by the claimed length, which is at least the header's, so that the
\* iteration ends; None leaves the remaining bytes as they are.  On a longer
\* slice that is not at a multiple of eight the same holds in a build that
\* does not check the dereference, and a build that checks it panics.
C30_DirEntriesSafe ==
  [][sys'.op = "dir_entries_next" =>
       LET buf == dents.remain
           ret == sys'.ret[1]
           aligned == buf.addr % HeaderAlign = 0
       IN /\ \A rg \in sys'.aux : 0 <= rg[1] /\ rg[1] <= rg[2] /\ rg[2] <= buf.len
          /\ buf.len < HEADER_SIZE => ret = "None"
          /\ (buf.len >= HEADER_SIZE /\ aligned) =>
               /\ ret = "None" <=> ~C30_Whole(buf)
               /\ ret = "Panic" <=> (C30_Whole(buf) /\ ~C30_Terminated(buf))
               /\ ret = "Some" <=> (C30_Whole(buf) /\ C30_Terminated(buf))
          /\ (buf.len >= HEADER_SIZE /\ ~aligned) =>
               /\ ret = "None" => ~C30_Whole(buf)
               /\ ret = "Some" => (C30_Whole(buf) /\ C30_Terminated(buf))
          /\ ret = "None" => dents'.remain = buf
          /\ ret = "Some" =>
               /\ d_reclen(Head(buf.hdrs)) >= HEADER_SIZE
               /\ dents'.remain.len = buf.len - d_reclen(Head(buf.hdrs))
               /\ dents'.remain.len >= 0
               /\ dents'.remain.len < buf.len
               /\ sys'.ret[2].name_len =
                    Head(buf.hdrs).nul - NAME_OFFSET
          /\ ret = "Panic" <=> dents'.st = "panicked"
    ]_<<sys.op, vars>>

\* after an entry was yielded, next() has returned None at a record whose
\* claimed length does not fit, and has left the remaining bytes in place
C30_Witness ==
  /\ sys.op = "dir_entries_next"
  /\ sys.ret[1] = "None"
  /\ sys.arg.len >= HEADER_SIZE
  /\ sys.arg.len \notin BufSizes
  /\ sys.arg.addr = 0
  /\ dents.remain = sys.arg

\* the transform of every entry of a directory, in the kernel's order
C21_Expected(dir) == [k \in 1..Len(dir) |-> <<dir[k].ino, dir[k].nul - NAME_OFFSET>>]

\* every record of the directory fits in the buffer
C21_Fits(a) == \A k \in 1..Len(a.dir) : d_reclen(a.dir[k]) <= a.buf_len

\* C21: when every record fits in the buffer, each next() of getdents_all
\* yields the transform of the next entry in the kernel's order, so that the
\* items yielded so far are always the first entries of the directory, each
\* once; it issues a getdents64 on the whole of the same buffer exactly when
\* the buffered records are used up; it yields an error only when that
\* request failed; and it returns None when the kernel returned zero bytes,
\* at which point the items yielded are all entries of the directory,
\* whatever the buffer's length.
C21_AllEntriesOnce ==
  [][(sys'.op = "all_next" /\ C21_Fits(alldents)) =>
       LET a == alldents
           b == alldents'
           want == C21_Expected(a.dir)
           item == sys'.ret[1] = "Some" /\ sys'.ret[2][1] = "Ok"
       IN /\ Len(b.out) <= Len(want)
          /\ b.out = SubSeq(want, 1, Len(b.out))
          /\ item => b.out = Append(a.out, sys'.ret[2][2])
          /\ ~item => b.out = a.out
          /\ sys'.reqs # <<>> <=> (a.f = "Some" /\ a.rng.start = a.rng.end)
          /\ sys'.reqs # <<>> =>
               sys'.reqs = <<Sys("getdents64", files[sys'.obj].fd, "", a.buf_len)>>
          /\ (sys'.ret[1] = "Some" /\ sys'.ret[2][1] = "Err") =>
               /\ sys'.kerr # {}
               /\ sys'.reqs # <<>>
               /\ b.f = "None"
          /\ (sys'.reqs # <<>> /\ sys'.aux = 0) => sys'.ret[1] = "None"
          /\ sys'.ret[1] = "None" =>
               \/ a.f = "None"
               \/ sys'.reqs # <<>> /\ sys'.aux = 0 /\ b.out = want
          /\ sys'.ret[1] \in {"Some", "None"}
    ]_<<sys.op, vars>>

\* a directory of three entries has been read to its end through a buffer
\* that holds two of its records at a time
C21_Witness ==
  /\ sys.op = "all_next"
  /\ sys.ret[1] = "None"
  /\ alldents.f = "Some"
  /\ alldents.st = "ended"
  /\ Len(alldents.dir) = MaxDir
  /\ alldents.buf_len = 56
  /\ alldents.out = C21_Expected(alldents.dir)

\* the last step was a write that accepted no byte
C29_ZeroWrite ==
  sys.op = "write_str_write" /\ sys.ret[1] = "Ok" /\ sys.ret[2] = 0

C29_Returned == wr.st \in {"ok", "err"}

\* C29, as stated: write_str returns for every sequence of results of the
\* write calls.
C29_AlwaysTerminates == (wr.st = "writing") ~> C29_Returned

\* what each step of write_str does: a write is issued only inside the loop,
\* on all bytes not yet accepted; the bytes accepted so far followed by the
\* bytes still to write are the bytes of the string; a write that accepts n
\* bytes shortens the bytes to write by n, one that fails makes write_str
\* return its error with no further write, and Ok is returned only when
\* every byte has been accepted
C29_Steps ==
  /\ sys'.op = "write_str_write" =>
       /\ wr.st = "writing"
       /\ sys'.reqs = <<Sys("write", files[sys'.obj].fd, "", wr.bytes)>>
       /\ wr.bytes # <<>>
       /\ IF sys'.ret[1] = "Ok"
          THEN /\ wr'.st = "writing"
               /\ Len(wr'.bytes) = Len(wr.bytes) - sys'.ret[2]
               /\ wr'.written = wr.written \o SubSeq(wr.bytes, 1, sys'.ret[2])
          ELSE /\ wr'.st = "err"
               /\ wr'.bytes = wr.bytes
               /\ wr'.written = wr.written
  /\ sys'.op = "write_str_return" =>
       /\ wr.st = "writing"
       /\ wr'.st = "ok"
       /\ wr'.written = as_bytes(wr.s)
  /\ wr'.st \in {"writing", "ok"} => wr'.written \o wr'.bytes = as_bytes(wr'.s)
  /\ wr'.st = "err" =>
       /\ wr'.written # as_bytes(wr'.s)
       /\ wr'.written = SubSeq(as_bytes(wr'.s), 1, Len(wr'.written))
  /\ wr.st \in {"ok", "err"} => wr' = wr

\* C29, for what the code does: the steps are as above, and write_str returns
\* unless its writes accept no byte for ever: a write that returns Ok(0) is
\* repeated with the same bytes.
C29_TerminatesUnlessZero ==
  /\ [][C29_Steps]_<<sys.op, vars>>
  /\ (<>[]~C29_ZeroWrite) => ((wr.st = "writing") ~> C29_Returned)

\* a string with a two-byte character has been written by two writes that
\* split the character, after a write that accepted nothing
C29_Witness ==
  /\ wr.st = "ok"
  /\ wr.s = <<233, 65>>
  /\ wr.calls = 3
  /\ wr.written = <<195, 169, 65>>

\* the threads that are inside lock() and have not got the mutex
C25_Waiting ==
  {t \in ThreadIds :
     threads[t].pc \in {"spin_first", "spin_loop", "cas_retry", "loop", "wait", "sleeping"}}

\* the last step gave the mutex to a thread that was waiting in lock()
C25_WaiterAcquired ==
  sys.op = "lock_contended" /\ threads[sys.obj].pc \in GuardPcs

\* the last step gave the mutex to a thread that was not waiting: its first
\* compare_exchange found the word UNLOCKED
C25_Barged ==
  sys.op \in {"lock", "try_lock"} /\ threads[sys.obj].pc \in GuardPcs

\* C25, as stated: whenever some thread is waiting in lock(), some waiting
\* thread eventually acquires the mutex.
C25_WaiterEventuallyAcquires == (C25_Waiting # {}) ~> C25_WaiterAcquired

\* the word and the wake-ups, step by step
C25_Steps ==
  /\ futex_word' \in {UNLOCKED, LOCKED, CONTENDED}
  /\ \A t \in ThreadIds :
       /\ (threads[t].pc # "sleeping" /\ threads'[t].pc = "sleeping") =>
            /\ threads[t].pc = "wait"
            /\ futex_word = CONTENDED
            /\ sys'.reqs = <<FutexCall("FUTEX_WAIT", CONTENDED)>>
       /\ (threads[t].pc # "wait" /\ threads'[t].pc = "wait") =>
            \/ futex_word' = CONTENDED
            \/ threads[t].state = CONTENDED /\ futex_word' = futex_word
       /\ (sys'.op = "futex_wait" /\ sys'.obj = t /\ threads[t].pc = "wait"
             /\ futex_word # CONTENDED) =>
            threads'[t].pc = "spin_loop"
       /\ (sys'.op = "unlock" /\ sys'.obj = t) =>
            /\ futex_word' = UNLOCKED
            /\ threads'[t].pc = "wake" <=> futex_word = CONTENDED
            /\ \A u \in ThreadIds \ {t} : threads'[u] = threads[u]
       /\ (sys'.op = "futex_wake" /\ sys'.obj = t) =>
            /\ sys'.reqs = <<FutexCall("FUTEX_WAKE", 1)>>
            /\ Cardinality({u \in ThreadIds : threads[u].pc = "sleeping"
                                               /\ threads'[u].pc # "sleeping"})
                 = IF Sleepers = {} THEN 0 ELSE 1
       /\ (threads[t].pc = "sleeping" /\ threads'[t].pc # "sleeping") =>
            threads'[t].pc = "spin_loop"
       /\ (threads[t].pc = "loop" /\ threads'[t].pc \in GuardPcs) =>
            /\ futex_word = UNLOCKED
            /\ futex_word' = CONTENDED
  /\ (Sleepers' # {} /\ Guards' = {}) =>
       \/ \E t \in ThreadIds : threads'[t].pc \in {"wake", "spin_loop", "loop"}
       \/ futex_word' = CONTENDED

\* C25, for what the code does: the steps are as above, and whenever some
\* thread is waiting in lock() some waiting thread eventually acquires the
\* mutex, unless threads that were not waiting take the free mutex ahead of
\* the waiters again and again for ever.
C25_NoLostWakeup ==
  /\ [][C25_Steps]_<<sys.op, vars>>
  /\ (<>[]~C25_Barged) => ((C25_Waiting # {}) ~> C25_WaiterAcquired)

\* a thread that was parked and woken by an unlock has taken the mutex and
\* has left the word CONTENDED, while another thread is parked
C25_Witness ==
  /\ C25_WaiterAcquired
  /\ futex_word = CONTENDED
  /\ Sleepers # {}

====
